---- MODULE Spec2Model ----
(***************************************************************************)
(* Replica reconciliation of mdpage: two replicas (each a Local Store and  *)
(* a SyncManagerV2 instance) and one shared Drive namespace.               *)
(*                                                                         *)
(* Identifiers are tuples of clock values: the application names a folder  *)
(* `folder-${Date.now()}`, a page `page-${Date.now()}` and a conflict copy *)
(* `${id}_conflict_${Date.now()}`.  Page content is a number, 0 being the  *)
(* empty string.  Collections that the code reads with getAll() or from a  *)
(* JSON array are maps from id to row, walked in ascending id order.       *)
(***************************************************************************)
EXTENDS Integers, Sequences, FiniteSets, TLC

VARIABLES local, drive, isSyncing, pc, result, start, now, log, calls, interrupted, net,
          readIndex

vars == <<local, drive, isSyncing, pc, result, start, now, log, calls, interrupted, net,
          readIndex>>

(* ------------------------------ bounds --------------------------------- *)

\* user operations in one behaviour
MaxEdits == 2
\* performSync calls in one behaviour
MaxSyncs == 3
\* page contents are 0..MaxContent (0 is the empty string)
MaxContent == 3
\* the names a rename can choose are <<"renamed", 1>> .. <<"renamed", MaxName>>
MaxName == 1
\* performSync calls one replica makes while its run is in flight
MaxRejected == 1
\* runs cut short by a crash in one behaviour
MaxCrashes == 1
\* calls of the Drive adapter in one behaviour
MaxCalls == 4
\* forceUploadAll and forceDownloadAll calls in one behaviour
MaxForce == 2

\* rewrites of an index file by a client of another format version
MaxForeign == 1

\* the latest deletedAt of a tombstone that is there from the start
MaxDeletedAt == 3

\* downloads of an index file that are refused
MaxRefusals == 1

\* runs of Stage B or D in which the local tombstones cannot be read
MaxUnready == 1

\* folder moves of the users, and the runs that follow them
MaxMoves == 2
MaxForestSyncs == 4

Replicas == {"A", "B"}
Contents == 0..MaxContent

(* ------------------------------ maps ----------------------------------- *)

EmptyMap == <<>>

Put(m, k, v) == [x \in (DOMAIN m) \cup {k} |-> IF x = k THEN v ELSE m[x]]

Remove(m, k) == [x \in (DOMAIN m) \ {k} |-> m[x]]

Has(m, k) == k \in DOMAIN m

Min2(a, b) == IF a < b THEN a ELSE b

\* string order of two ids, position by position
IdLess(a, b) ==
    \E i \in 1..(Min2(Len(a), Len(b)) + 1) :
        /\ \A j \in 1..(i - 1) : a[j] = b[j]
        /\ \/ i > Len(a) /\ i <= Len(b)
           \/ i <= Len(a) /\ i <= Len(b) /\ a[i] < b[i]

RECURSIVE Ordered(_)
\* the ids of S in key order, as getAll() and a JSON array list them
Ordered(S) ==
    IF S = {} THEN <<>>
    ELSE LET m == CHOOSE x \in S : \A y \in S \ {x} : IdLess(x, y)
         IN  <<m>> \o Ordered(S \ {m})

\* the null parentId
NoParent == <<>>

(* ------------------------- hashing, serializer ------------------------- *)

\* SHA-256 of the content, hex: distinct contents have distinct digests
calculateContentHash(content) == <<"sha256", content>>

\* `new Blob([content]).size`
contentSize(content) == content

\* the catch block of calculateContentHash, taken when crypto.subtle.digest is
\* not there: `fallback-${content.length}-${Date.now()}`, t being the reading
\* of the clock
fallbackHash(content, t) == <<"fallback", contentSize(content), t>>

serializePageContent(page) == page.content

deserializePageContent(markdown) == markdown

\* a downloaded text is truthy unless it is the empty string
Truthy(content) == content # 0

\* the version tag every serialize function stamps
Version == 2

IndexFile(rows) == [exists |-> TRUE, version |-> Version, rows |-> rows]

AbsentFile == [exists |-> FALSE, version |-> Version, rows |-> EmptyMap]

\* the rows of an index file, none when the file is absent
Rows(file) == IF file.exists THEN file.rows ELSE EmptyMap

serializeFolders(folders) ==
    [f \in DOMAIN folders |->
        [name |-> folders[f].name, parentId |-> folders[f].parentId,
         order |-> folders[f].order, createdAt |-> folders[f].createdAt,
         updatedAt |-> folders[f].updatedAt]]

serializePages(pages) ==
    [p \in DOMAIN pages |->
        [name |-> pages[p].name, folderId |-> pages[p].folderId,
         createdAt |-> pages[p].createdAt, updatedAt |-> pages[p].updatedAt,
         contentHash |-> calculateContentHash(pages[p].content),
         contentSize |-> contentSize(pages[p].content)]]

serializeDeleted(deleted) == deleted

\* a deserializer that takes any version tag
VersionAny(file) == TRUE

\* deserialize*: the version tag is validated, nothing else
VersionOk(file) == file.version = Version

\* the page title the editor derives from the text on every save
extractPageTitle(content) == IF content = 0 THEN <<"new page">> ELSE <<"line", content>>

\* the page name the metadata repair derives from a content file
RepairName(content) == IF content = 0 THEN <<"Untitled">> ELSE <<"line", content>>

(* ------------------------ writes of a sync run ------------------------- *)

\* one write of a run: a Local Store request or a Drive request
W(op, id, v) == [op |-> op, id |-> id, v |-> v]

\* a page delete that records a tombstone, as deletePage does
deletePageRecorded(L, id) ==
    [L EXCEPT !.pages = Remove(@, id), !.deletedPages = Put(@, id, 1)]

\* db.silentDeletePage: the row is deleted from the pages store and nothing
\* is recorded
silentDeletePage(L, id) == [L EXCEPT !.pages = Remove(@, id)]

\* the stores after write w; S is [local |-> one replica's store, drive |-> Drive]
ApplyWrite(S, w) ==
    CASE w.op = "createFolder" ->
           [S EXCEPT !.local.folders = Put(@, w.id, w.v)]
      [] w.op = "silentDeleteFolder" ->
           [S EXCEPT !.local.folders = Remove(@, w.id)]
      [] w.op = "createPage" ->
           [S EXCEPT !.local.pages = Put(@, w.id, w.v)]
      [] w.op = "updatePage" ->
           [S EXCEPT !.local.pages = Put(@, w.id, w.v)]
      [] w.op = "silentDeletePage" ->
           [S EXCEPT !.local = silentDeletePage(@, w.id)]
      [] w.op = "clearDeletedFolders" ->
           [S EXCEPT !.local.deletedFolders = EmptyMap]
      [] w.op = "clearDeletedPages" ->
           [S EXCEPT !.local.deletedPages = EmptyMap]
      [] w.op = "addDeletedFolder" ->
           [S EXCEPT !.local.deletedFolders = Put(@, w.id, w.v)]
      [] w.op = "addDeletedPage" ->
           [S EXCEPT !.local.deletedPages = Put(@, w.id, w.v)]
      [] w.op = "uploadFoldersJson" ->
           [S EXCEPT !.drive.foldersJson = IndexFile(w.v)]
      [] w.op = "uploadDeletedFoldersJson" ->
           [S EXCEPT !.drive.deletedFoldersJson = IndexFile(w.v)]
      [] w.op = "uploadPagesJson" ->
           [S EXCEPT !.drive.pagesJson = IndexFile(w.v)]
      [] w.op = "uploadDeletedPagesJson" ->
           [S EXCEPT !.drive.deletedPagesJson = IndexFile(w.v)]
      [] w.op = "uploadPageContent" ->
           [S EXCEPT !.drive.pageFiles = Put(@, w.id, w.v)]
      [] w.op = "deletePageContent" ->
           [S EXCEPT !.drive.pageFiles = Remove(@, w.id)]

RECURSIVE ApplyWrites(_, _)
ApplyWrites(S, ws) ==
    IF ws = <<>> THEN S ELSE ApplyWrites(ApplyWrite(S, Head(ws)), Tail(ws))

RECURSIVE Flatten(_)
Flatten(ss) == IF ss = <<>> THEN <<>> ELSE Head(ss) \o Flatten(Tail(ss))

\* what a stage did: its writes in order, the result so far, the error thrown
Out(ws, res, err) == [ws |-> ws, res |-> res, err |-> err]

NoError == ""

(* --------------------------- Stage A: folders -------------------------- *)

\* a comparison in which equal timestamps count as a change
compareFoldersTies(localFolders, driveFolders) ==
    [toUpload |->
        SelectSeq(Ordered(DOMAIN localFolders), LAMBDA f :
            \/ ~Has(driveFolders, f)
            \/ localFolders[f].updatedAt >= driveFolders[f].updatedAt),
     toDownload |->
        SelectSeq(Ordered(DOMAIN driveFolders), LAMBDA f :
            \/ ~Has(localFolders, f)
            \/ driveFolders[f].updatedAt > localFolders[f].updatedAt)]

compareFolders(localFolders, driveFolders) ==
    [toUpload |->
        SelectSeq(Ordered(DOMAIN localFolders), LAMBDA f :
            \/ ~Has(driveFolders, f)
            \/ localFolders[f].updatedAt > driveFolders[f].updatedAt),
     toDownload |->
        SelectSeq(Ordered(DOMAIN driveFolders), LAMBDA f :
            \/ ~Has(localFolders, f)
            \/ driveFolders[f].updatedAt > localFolders[f].updatedAt)]

\* store.add(row): a key that is already in the store is a ConstraintError
AddFails(store, id) == Has(store, id)

\* the first position of ids whose add fails in store, Len(ids) + 1 if none
\* (the ids of one download list are distinct)
FirstFailure(store, ids) ==
    IF \E i \in 1..Len(ids) : AddFails(store, ids[i])
    THEN CHOOSE i \in 1..Len(ids) :
            /\ AddFails(store, ids[i])
            /\ \A j \in 1..(i - 1) : ~AddFails(store, ids[j])
    ELSE Len(ids) + 1

syncFolders(L, D, res) ==
    LET localFolders == L.folders
        file == D.foldersJson
    IN
    IF ~file.exists
    THEN Out(<<W("uploadFoldersJson", NoParent, serializeFolders(localFolders))>>,
             [res EXCEPT !.foldersUploaded = Cardinality(DOMAIN localFolders)],
             NoError)
    ELSE IF ~VersionOk(file)
    THEN Out(<<>>, res, "Unsupported folders.json version")
    ELSE
    LET driveFolders == file.rows
        cmp == compareFolders(localFolders, driveFolders)
        stop == FirstFailure(localFolders, cmp.toDownload)
        done == SubSeq(cmp.toDownload, 1, stop - 1)
        creates == [i \in 1..Len(done) |->
                       W("createFolder", done[i], driveFolders[done[i]])]
        allLocalFolders ==
            [f \in (DOMAIN localFolders) \cup {done[i] : i \in 1..Len(done)} |->
                IF Has(localFolders, f) THEN localFolders[f] ELSE driveFolders[f]]
        downloaded == [res EXCEPT !.foldersDownloaded = @ + Len(done)]
    IN
    IF stop <= Len(cmp.toDownload)
    THEN Out(creates, downloaded, "ConstraintError")
    ELSE IF Len(cmp.toUpload) > 0 \/ Len(cmp.toDownload) > 0
    THEN Out(creates \o
               <<W("uploadFoldersJson", NoParent, serializeFolders(allLocalFolders))>>,
             [downloaded EXCEPT !.foldersUploaded = Len(cmp.toUpload)],
             NoError)
    ELSE Out(creates, downloaded, NoError)

(* ---------------------- Stage B: folder tombstones --------------------- *)

RECURSIVE MergeItemsKeep(_, _)
\* a merge loop that keeps the first deletedAt it sees for an id
MergeItemsKeep(items, map) ==
    IF items = <<>> THEN map
    ELSE MergeItemsKeep(Tail(items),
             IF Has(map, Head(items).id) THEN map
             ELSE Put(map, Head(items).id, Head(items).deletedAt))

RECURSIVE MergeItems(_, _)
\* the Map the merge loop builds from the items [id, deletedAt], in order
MergeItems(items, map) ==
    IF items = <<>> THEN map
    ELSE LET item == Head(items)
             \* `!existing`: no entry, or an entry whose deletedAt is 0
             noExisting == ~Has(map, item.id) \/ map[item.id] = 0
         IN  MergeItems(Tail(items),
                 IF noExisting \/ item.deletedAt > map[item.id]
                 THEN Put(map, item.id, item.deletedAt)
                 ELSE map)

Items(deleted) ==
    LET ids == Ordered(DOMAIN deleted)
    IN  [i \in 1..Len(ids) |-> [id |-> ids[i], deletedAt |-> deleted[ids[i]]]]

mergeDeletedRecords(localDeleted, driveDeleted) ==
    MergeItems(Items(localDeleted) \o Items(driveDeleted), EmptyMap)

syncDeletedFolders(L, D, res) ==
    LET localDeleted == L.deletedFolders
        file == D.deletedFoldersJson
    IN
    IF ~file.exists
    THEN Out(IF DOMAIN localDeleted # {}
             THEN <<W("uploadDeletedFoldersJson", NoParent, serializeDeleted(localDeleted))>>
             ELSE <<>>,
             res, NoError)
    ELSE IF ~VersionOk(file)
    THEN Out(<<>>, res, "Unsupported deletedFolders.json version")
    ELSE
    LET driveDeleted == file.rows
        hit == SelectSeq(Ordered(DOMAIN driveDeleted), LAMBDA f : Has(L.folders, f))
        deletes == [i \in 1..Len(hit) |-> W("silentDeleteFolder", hit[i], 0)]
        mergedDeleted == mergeDeletedRecords(localDeleted, driveDeleted)
    IN
    Out(deletes \o
          <<W("uploadDeletedFoldersJson", NoParent, serializeDeleted(mergedDeleted))>>,
        [res EXCEPT !.foldersDeleted = @ + Len(hit)],
        NoError)

(* ------------------------ Stage C: page metadata ----------------------- *)

\* a comparison that looks at the local pages only
comparePagesLocalOnly(localPages, drivePages) ==
    [toUpload |->
        SelectSeq(Ordered(DOMAIN localPages), LAMBDA p :
            \/ ~Has(drivePages, p)
            \/ localPages[p].updatedAt > drivePages[p].updatedAt),
     toDownload |-> <<>>]

comparePages(localPages, drivePages) ==
    [toUpload |->
        SelectSeq(Ordered(DOMAIN localPages), LAMBDA p :
            \/ ~Has(drivePages, p)
            \/ localPages[p].updatedAt > drivePages[p].updatedAt),
     toDownload |->
        SelectSeq(Ordered(DOMAIN drivePages), LAMBDA p :
            \/ ~Has(localPages, p)
            \/ drivePages[p].updatedAt > localPages[p].updatedAt)]

syncPages(L, D, res) ==
    LET localPages == L.pages
        file == D.pagesJson
    IN
    IF ~file.exists
    THEN Out(<<W("uploadPagesJson", NoParent, serializePages(localPages))>>,
             [res EXCEPT !.pagesUploaded = Cardinality(DOMAIN localPages)],
             NoError)
    ELSE IF ~VersionOk(file)
    THEN Out(<<>>, res, "Unsupported pages.json version")
    ELSE
    LET cmp == comparePages(localPages, file.rows)
    IN
    IF Len(cmp.toUpload) > 0 \/ Len(cmp.toDownload) > 0
    THEN Out(<<W("uploadPagesJson", NoParent, serializePages(localPages))>>, res, NoError)
    ELSE Out(<<>>, res, NoError)

(* ----------------------- Stage D: page tombstones ---------------------- *)

mergePageDeletedRecords(localDeleted, driveDeleted) ==
    MergeItems(Items(localDeleted) \o Items(driveDeleted), EmptyMap)

syncDeletedPages(L, D, res) ==
    LET localDeleted == L.deletedPages
        file == D.deletedPagesJson
    IN
    IF ~file.exists
    THEN Out(IF DOMAIN localDeleted # {}
             THEN <<W("uploadDeletedPagesJson", NoParent, serializeDeleted(localDeleted))>>
             ELSE <<>>,
             res, NoError)
    ELSE IF ~VersionOk(file)
    THEN Out(<<>>, res, "Unsupported deletedPages.json version")
    ELSE
    LET driveDeleted == file.rows
        ids == Ordered(DOMAIN driveDeleted)
        \* per tombstone: the local delete when the page exists, then the
        \* Drive delete request when the content file is listed
        perId == [i \in 1..Len(ids) |->
                    (IF Has(L.pages, ids[i])
                     THEN <<W("silentDeletePage", ids[i], 0)>> ELSE <<>>)
                    \o
                    (IF Has(D.pageFiles, ids[i])
                     THEN <<W("deletePageContent", ids[i], 0)>> ELSE <<>>)]
        hit == SelectSeq(ids, LAMBDA p : Has(L.pages, p))
        mergedDeleted == mergePageDeletedRecords(localDeleted, driveDeleted)
    IN
    Out(Flatten(perId) \o
          <<W("uploadDeletedPagesJson", NoParent, serializeDeleted(mergedDeleted))>>,
        [res EXCEPT !.pagesDeleted = @ + Len(hit)],
        NoError)

(* ------------------------ Stage E: page contents ----------------------- *)

\* the folderId 'unknown' the repair falls back to
UnknownFolder == <<0>>

\* the first root folder, else the first folder, else 'unknown'
defaultFolderId(folders) ==
    LET allFolders == Ordered(DOMAIN folders)
        roots == SelectSeq(allFolders, LAMBDA f : folders[f].parentId = NoParent)
    IN  IF Len(roots) > 0 THEN roots[1]
        ELSE IF Len(allFolders) > 0 THEN allFolders[1]
        ELSE UnknownFolder

\* the metadata entries the repair rebuilds for content files without one
rebuildMetadata(drivePages, pageFiles, folders, t) ==
    LET missingInMetadata == (DOMAIN pageFiles) \ (DOMAIN drivePages)
        readable == {p \in missingInMetadata : Truthy(pageFiles[p])}
    IN  [p \in readable |->
            [name |-> RepairName(deserializePageContent(pageFiles[p])),
             folderId |-> defaultFolderId(folders),
             createdAt |-> t, updatedAt |-> t,
             contentHash |-> calculateContentHash(deserializePageContent(pageFiles[p])),
             contentSize |-> contentSize(pageFiles[p])]]

\* the upload condition without its second disjunct
needUploadByHash(localPage, id, drivePages, drivePageFileIds) ==
    \/ ~Has(drivePages, id)
    \/ calculateContentHash(localPage.content) # drivePages[id].contentHash

\* upload condition of the upload pass
needUpload(localPage, id, drivePages, drivePageFileIds) ==
    \/ ~Has(drivePages, id)
    \/ id \notin drivePageFileIds
    \/ calculateContentHash(localPage.content) # drivePages[id].contentHash

conflictId(id, t) == Append(id, t)

conflictName(name) == <<"conflict copy">> \o name

\* the download loop without the comparison of the downloaded text: every
\* page whose hash differs from its entry and is not newer gets a conflict copy
downloadOneUnverified(id, drivePage, localPages, pageFiles, t) ==
    IF ~Has(localPages, id)
    THEN IF Has(pageFiles, id) /\ Truthy(pageFiles[id])
         THEN [ws |-> <<W("createPage", id,
                          [name |-> drivePage.name, folderId |-> drivePage.folderId,
                           content |-> deserializePageContent(pageFiles[id]),
                           createdAt |-> drivePage.createdAt,
                           updatedAt |-> drivePage.updatedAt])>>,
               downloaded |-> 1, conflicts |-> 0]
         ELSE [ws |-> <<>>, downloaded |-> 0, conflicts |-> 0]
    ELSE IF calculateContentHash(localPages[id].content) # drivePage.contentHash
            /\ localPages[id].updatedAt <= drivePage.updatedAt
            /\ Has(pageFiles, id) /\ Truthy(pageFiles[id])
    THEN [ws |-> <<W("createPage", conflictId(id, t),
                     [localPages[id] EXCEPT !.name = conflictName(@)]),
                   W("updatePage", id,
                     [localPages[id] EXCEPT
                         !.content = deserializePageContent(pageFiles[id]),
                         !.name = drivePage.name,
                         !.updatedAt = drivePage.updatedAt])>>,
          downloaded |-> 1, conflicts |-> 1]
    ELSE [ws |-> <<>>, downloaded |-> 0, conflicts |-> 0]

\* one iteration of the download loop: its writes and what it counts
downloadOne(id, drivePage, localPages, pageFiles, t) ==
    IF ~Has(localPages, id)
    THEN IF Has(pageFiles, id) /\ Truthy(pageFiles[id])
         THEN [ws |-> <<W("createPage", id,
                          [name |-> drivePage.name, folderId |-> drivePage.folderId,
                           content |-> deserializePageContent(pageFiles[id]),
                           createdAt |-> drivePage.createdAt,
                           updatedAt |-> drivePage.updatedAt])>>,
               downloaded |-> 1, conflicts |-> 0]
         ELSE [ws |-> <<>>, downloaded |-> 0, conflicts |-> 0]
    ELSE
    LET localPage == localPages[id]
        localHash == calculateContentHash(localPage.content)
    IN
    IF localHash # drivePage.contentHash
       /\ localPage.updatedAt <= drivePage.updatedAt
       /\ Has(pageFiles, id) /\ Truthy(pageFiles[id])
    THEN LET driveContentText == deserializePageContent(pageFiles[id])
             driveHash == calculateContentHash(driveContentText)
             adopt == W("updatePage", id,
                        [localPage EXCEPT !.content = driveContentText,
                                          !.name = drivePage.name,
                                          !.updatedAt = drivePage.updatedAt])
         IN  IF localHash # driveHash /\ localPage.content # driveContentText
             THEN [ws |-> <<W("createPage", conflictId(id, t),
                              [localPage EXCEPT !.name = conflictName(localPage.name)]),
                            adopt>>,
                   downloaded |-> 1, conflicts |-> 1]
             ELSE [ws |-> <<adopt>>, downloaded |-> 1, conflicts |-> 0]
    ELSE [ws |-> <<>>, downloaded |-> 0, conflicts |-> 0]

RECURSIVE SumOf(_, _)
SumOf(f, n) == IF n = 0 THEN 0 ELSE f[n] + SumOf(f, n - 1)

syncPageContents(L, D, res, t) ==
    LET localPages == L.pages
        localIds == Ordered(DOMAIN localPages)
        file == D.pagesJson
    IN
    IF ~file.exists
    THEN Out([i \in 1..Len(localIds) |->
                 W("uploadPageContent", localIds[i],
                   serializePageContent(localPages[localIds[i]]))],
             [res EXCEPT !.pagesUploaded = @ + Len(localIds)],
             NoError)
    ELSE IF ~VersionOk(file)
    THEN Out(<<>>, res, "Unsupported pages.json version")
    ELSE
    LET actualPageIds == DOMAIN D.pageFiles
        inconsistent == Cardinality(DOMAIN file.rows) # Cardinality(actualPageIds)
        rebuilt == rebuildMetadata(file.rows, D.pageFiles, L.folders, t)
        drivePages ==
            IF inconsistent
            THEN [p \in (DOMAIN file.rows) \cup (DOMAIN rebuilt) |->
                     IF Has(file.rows, p) THEN file.rows[p] ELSE rebuilt[p]]
            ELSE file.rows
        repair == IF inconsistent
                  THEN <<W("uploadPagesJson", NoParent, drivePages)>>
                  ELSE <<>>
        \* upload pass
        toPut == SelectSeq(localIds, LAMBDA p :
                     needUpload(localPages[p], p, drivePages, actualPageIds))
        uploads == [i \in 1..Len(toPut) |->
                       W("uploadPageContent", toPut[i],
                         serializePageContent(localPages[toPut[i]]))]
        afterUploads == ApplyWrites([local |-> L, drive |-> D], uploads).drive.pageFiles
        \* download pass, over the entries of pages.json and then the rebuilt ones
        driveIds == Ordered(DOMAIN file.rows)
                      \o (IF inconsistent THEN Ordered(DOMAIN rebuilt) ELSE <<>>)
        each == [i \in 1..Len(driveIds) |->
                    downloadOne(driveIds[i], drivePages[driveIds[i]],
                                localPages, afterUploads, t)]
    IN
    Out(repair \o uploads \o Flatten([i \in 1..Len(driveIds) |-> each[i].ws]),
        [res EXCEPT !.pagesUploaded = @ + Len(toPut),
                    !.pagesDownloaded =
                        @ + SumOf([i \in 1..Len(driveIds) |-> each[i].downloaded],
                                  Len(driveIds)),
                    !.conflicts =
                        @ + SumOf([i \in 1..Len(driveIds) |-> each[i].conflicts],
                                  Len(driveIds))],
        NoError)

(* --------------------------- the Drive adapter ------------------------- *)

\* The requests of DriveV2Service, followed on two file names: an index file of
\* the app folder and a content file of the pages folder.  Drive keeps files by
\* id, so a folder can hold several blobs of one name; a search or a listing
\* gives them in an order the code does not ask for, and the code takes the
\* first.

FileNames == {"folders.json", "page-1.md"}

PageFileNames == {"page-1.md"}

\* what a call of the adapter gives its caller
Returned(kind, text) == [kind |-> kind, text |-> text]

\* the positions of the blobs called name
Named(blobs, name) == {i \in DOMAIN blobs : blobs[i].name = name}

\* the blob that `files[0]` or `files.find` may pick, 0 when there is none
Picks(blobs, name) == IF Named(blobs, name) = {} THEN {0} ELSE Named(blobs, name)

RemoveAt(seq, i) == SubSeq(seq, 1, i - 1) \o SubSeq(seq, i + 1, Len(seq))

\* download*Json and downloadPageContent: list the folder, find the file by
\* name, download it; the catch block turns a failed request into null
downloadPageContent(blobs, name, listed, fetched, i) ==
    IF ~listed THEN Returned("null", 0)
    ELSE IF i = 0 THEN Returned("null", 0)
    ELSE IF ~fetched THEN Returned("null", 0)
    ELSE Returned("text", blobs[i].content)

\* deletePageContent: list, find, delete; the catch block logs a failed request
\* and the call returns normally
deletePageContent(blobs, name, listed, deleted, i) ==
    [blobs |-> IF listed /\ i # 0 /\ deleted THEN RemoveAt(blobs, i) ELSE blobs,
     out |-> Returned("void", 0)]

\* listAllPageFiles: the listing, or the error of listFilesInFolder
listAllPageFiles(blobs, listed) ==
    IF listed
    THEN Returned("files", Cardinality(UNION {Named(blobs, n) : n \in PageFileNames}))
    ELSE Returned("throws", 0)

\* the position of the blob with file id `id`, 0 when it is gone
WithId(blobs, id) ==
    IF \E i \in DOMAIN blobs : blobs[i].id = id
    THEN CHOOSE i \in DOMAIN blobs : blobs[i].id = id
    ELSE 0

\* uploadOrUpdateFile after its search: PATCH of the file found, or POST of a
\* new file when the search found none
uploadOrUpdateFile(blobs, name, content, existingFileId, newId, ok) ==
    IF existingFileId # 0
    THEN IF ok /\ WithId(blobs, existingFileId) # 0
         THEN [blobs |-> [blobs EXCEPT ![WithId(blobs, existingFileId)].content = content],
               out |-> Returned("void", 0)]
         ELSE [blobs |-> blobs, out |-> Returned("throws", 0)]
    ELSE IF ok
         THEN [blobs |-> Append(blobs, [id |-> newId, name |-> name, content |-> content]),
               out |-> Returned("void", 0)]
         ELSE [blobs |-> blobs, out |-> Returned("throws", 0)]

\* one call of the adapter as its caller saw it: whether a request of it
\* failed, whether a blob of that name existed when it was made, what it gave
Call(op, r, name, failed, existed, out) ==
    [op |-> op, r |-> r, name |-> name, failed |-> failed, existed |-> existed,
     out |-> out]

NoPut == [at |-> "idle", name |-> "folders.json", content |-> 0, existingFileId |-> 0]

\* an empty app folder, no call made
NewNamespace ==
    [blobs |-> <<>>, ids |-> 0, calls |-> 0,
     put |-> [r \in Replicas |-> NoPut],
     lastPut |-> [n \in FileNames |-> 0],
     last |-> Call("none", "A", "folders.json", FALSE, FALSE, Returned("void", 0))]

MayRequest(r) == net.put[r].at = "idle" /\ net.calls < MaxCalls

DownloadPageContent(r) ==
    /\ MayRequest(r)
    /\ \E name \in FileNames, listed, fetched \in BOOLEAN :
         \E i \in Picks(net.blobs, name) :
            net' = [net EXCEPT
                      !.calls = @ + 1,
                      !.last = Call("download", r, name,
                                    ~listed \/ (i # 0 /\ ~fetched), i # 0,
                                    downloadPageContent(net.blobs, name,
                                                        listed, fetched, i))]
    /\ UNCHANGED <<local, drive, isSyncing, pc, result, start, now, log, calls,
                   interrupted, readIndex>>

DeletePageContent(r) ==
    /\ MayRequest(r)
    /\ \E name \in PageFileNames, listed, deleted \in BOOLEAN :
         \E i \in Picks(net.blobs, name) :
            LET did == deletePageContent(net.blobs, name, listed, deleted, i)
            IN  net' = [net EXCEPT
                          !.calls = @ + 1,
                          !.blobs = did.blobs,
                          !.lastPut[name] = IF did.blobs # net.blobs THEN 0 ELSE @,
                          !.last = Call("delete", r, name,
                                        ~listed \/ (i # 0 /\ ~deleted), i # 0,
                                        did.out)]
    /\ UNCHANGED <<local, drive, isSyncing, pc, result, start, now, log, calls,
                   interrupted, readIndex>>

ListAllPageFiles(r) ==
    /\ MayRequest(r)
    /\ \E listed \in BOOLEAN :
         net' = [net EXCEPT
                   !.calls = @ + 1,
                   !.last = Call("list", r, "page-1.md", ~listed, FALSE,
                                 listAllPageFiles(net.blobs, listed))]
    /\ UNCHANGED <<local, drive, isSyncing, pc, result, start, now, log, calls,
                   interrupted, readIndex>>

\* upload*: the search request of uploadOrUpdateFile; a failed search throws
UploadSearch(r) ==
    /\ MayRequest(r)
    /\ \E name \in FileNames, content \in 1..MaxContent, ok \in BOOLEAN :
         \E i \in Picks(net.blobs, name) :
            net' = IF ok
                   THEN [net EXCEPT
                           !.calls = @ + 1,
                           !.put[r] = [at |-> "searched", name |-> name,
                                       content |-> content,
                                       existingFileId |->
                                           IF i = 0 THEN 0 ELSE net.blobs[i].id]]
                   ELSE [net EXCEPT
                           !.calls = @ + 1,
                           !.last = Call("upload", r, name, TRUE, i # 0,
                                         Returned("throws", 0))]
    /\ UNCHANGED <<local, drive, isSyncing, pc, result, start, now, log, calls,
                   interrupted, readIndex>>

\* upload*: the PATCH or POST request of uploadOrUpdateFile and its return
UploadWrite(r) ==
    /\ net.put[r].at = "searched"
    /\ \E ok \in BOOLEAN :
         LET put == net.put[r]
             did == uploadOrUpdateFile(net.blobs, put.name, put.content,
                                       put.existingFileId, net.ids + 1, ok)
         IN  net' = [net EXCEPT
                       !.blobs = did.blobs,
                       !.ids = IF Len(did.blobs) > Len(net.blobs) THEN @ + 1 ELSE @,
                       !.put[r] = NoPut,
                       !.lastPut[put.name] =
                           IF did.out.kind = "void" THEN put.content ELSE @,
                       !.last = Call("upload", r, put.name, ~ok,
                                     put.existingFileId # 0, did.out)]
    /\ UNCHANGED <<local, drive, isSyncing, pc, result, start, now, log, calls,
                   interrupted, readIndex>>

(* ------------------------------ the state ------------------------------ *)

EmptyStore == [folders |-> EmptyMap, pages |-> EmptyMap,
               deletedFolders |-> EmptyMap, deletedPages |-> EmptyMap]

EmptyDrive == [foldersJson |-> AbsentFile, deletedFoldersJson |-> AbsentFile,
               pagesJson |-> AbsentFile, deletedPagesJson |-> AbsentFile,
               pageFiles |-> EmptyMap]

\* the result object performSync starts from
NewResult == [success |-> FALSE, foldersUploaded |-> 0, foldersDownloaded |-> 0,
              foldersDeleted |-> 0, pagesUploaded |-> 0, pagesDownloaded |-> 0,
              pagesDeleted |-> 0, conflicts |-> 0, errors |-> <<>>]

Event(k, r, op, id, c, res) ==
    [k |-> k, r |-> r, op |-> op, id |-> id, c |-> c, res |-> res]

Count(k) == Cardinality({i \in DOMAIN log : log[i].k = k})

Running == {r \in Replicas : isSyncing[r]}

\* a folder and a page in it, as handleCreateFolder and saveCurrentPage make them
SeedFolder == [name |-> <<"new folder", 1>>, parentId |-> NoParent, order |-> 0,
               createdAt |-> 1, updatedAt |-> 1]

SeedPage == [name |-> extractPageTitle(1), folderId |-> <<1>>, content |-> 1,
             createdAt |-> 2, updatedAt |-> 2]

SeedStore == [folders |-> Put(EmptyMap, <<1>>, SeedFolder),
              pages |-> Put(EmptyMap, <<2>>, SeedPage),
              deletedFolders |-> EmptyMap, deletedPages |-> EmptyMap]

\* Drive after forceUploadAll of SeedStore: the four index files and one
\* content file per page
SeedDrive == [foldersJson |-> IndexFile(serializeFolders(SeedStore.folders)),
              deletedFoldersJson |-> IndexFile(EmptyMap),
              pagesJson |-> IndexFile(serializePages(SeedStore.pages)),
              deletedPagesJson |-> IndexFile(EmptyMap),
              pageFiles |-> Put(EmptyMap, <<2>>, serializePageContent(SeedPage))]

\* no tombstone index downloaded by the stage in flight
NothingRead == [exists |-> FALSE, version |-> 0, rows |-> EmptyMap]

InitWith(stores, d, t, tag) ==
    /\ local = stores
    /\ drive = d
    /\ isSyncing = [r \in Replicas |-> FALSE]
    /\ pc = [r \in Replicas |-> "idle"]
    /\ result = [r \in Replicas |-> NewResult]
    /\ start = [r \in Replicas |-> [local |-> stores[r], drive |-> d]]
    /\ now = t
    /\ log = <<Event("init", "A", tag, NoParent, 0, NewResult)>>
    /\ calls = [r \in Replicas |-> [made |-> 0, thrown |-> 0]]
    /\ interrupted = [r \in Replicas |-> [local |-> stores[r], drive |-> d]]
    /\ net = NewNamespace
    /\ readIndex = [r \in Replicas |-> NothingRead]

\* the tombstone collections over the ids of two deleted entities, each
\* deletedAt a Date.now() of the past
TombstoneIds == {<<1>>, <<2>>}

Tombstones ==
    UNION {[ids -> 1..MaxDeletedAt] : ids \in SUBSET TombstoneIds}

\* replica A and Drive hold tombstones of their own, recorded by A's user and
\* uploaded by other devices; no folder or page is left
InitMerge ==
    \E lf \in Tombstones, df \in Tombstones :
        InitWith([r \in Replicas |->
                     IF r = "A"
                     THEN [EmptyStore EXCEPT !.deletedFolders = lf, !.deletedPages = df]
                     ELSE EmptyStore],
                 [EmptyDrive EXCEPT !.foldersJson = IndexFile(EmptyMap),
                                    !.pagesJson = IndexFile(EmptyMap),
                                    !.deletedFoldersJson = IndexFile(df),
                                    !.deletedPagesJson = IndexFile(lf)],
                 MaxDeletedAt, "tombstones")

\* nothing anywhere: two new installations and an empty Drive namespace
InitFresh == InitWith([r \in Replicas |-> EmptyStore], EmptyDrive, 0, "fresh")

\* replica A made a folder and a page and ran forceUploadAll; replica B ran
\* forceDownloadAll
InitShared == InitWith([r \in Replicas |-> SeedStore], SeedDrive, 2, "shared")

Init == InitFresh \/ InitShared

\* two root folders made on replica A, uploaded by forceUploadAll and
\* downloaded by replica B with forceDownloadAll; no page
InitForest ==
    LET folders == Put(Put(EmptyMap, <<1>>, SeedFolder), <<2>>,
                       [SeedFolder EXCEPT !.name = <<"new folder", 2>>, !.order = 1,
                                          !.createdAt = 2, !.updatedAt = 2])
    IN  InitWith([r \in Replicas |-> [EmptyStore EXCEPT !.folders = folders]],
                 [EmptyDrive EXCEPT !.foldersJson = IndexFile(serializeFolders(folders)),
                                    !.pagesJson = IndexFile(EmptyMap),
                                    !.deletedFoldersJson = IndexFile(EmptyMap),
                                    !.deletedPagesJson = IndexFile(EmptyMap)],
                 2, "forest")

(* ---------------------------- user operations -------------------------- *)

CanEdit == Running = {} /\ Count("edit") < MaxEdits

Edited(r, op, id, c) ==
    /\ now' = now + 1
    /\ log' = Append(log, Event("edit", r, op, id, c, NewResult))
    /\ UNCHANGED <<drive, isSyncing, pc, result, start, calls, interrupted, net, readIndex>>

RootOrders(folders) ==
    {folders[f].order : f \in {g \in DOMAIN folders : folders[g].parentId = NoParent}}

MaxOrder(orders) == IF orders = {} THEN -1 ELSE CHOOSE o \in orders : \A x \in orders : x <= o

\* the default name: the greatest number of a root folder still called
\* "new folder <number>", plus one
newFolderName(folders) ==
    LET numbers == {folders[f].name[2] :
                       f \in {g \in DOMAIN folders :
                                 /\ folders[g].parentId = NoParent
                                 /\ folders[g].name[1] = "new folder"}}
        maxNumber == IF numbers = {} THEN 0
                     ELSE CHOOSE n \in numbers : \A x \in numbers : x <= n
    IN  <<"new folder", maxNumber + 1>>

\* handleCreateFolder(null): a new root folder with the default name
CreateFolder(r) ==
    /\ CanEdit
    /\ LET t == now + 1
       IN  local' = [local EXCEPT ![r].folders =
                        Put(@, <<t>>, [name |-> newFolderName(@), parentId |-> NoParent,
                                       order |-> MaxOrder(RootOrders(@)) + 1,
                                       createdAt |-> t, updatedAt |-> t])]
    /\ Edited(r, "createFolder", <<now + 1>>, 0)

\* handleUpdateFolder: rename
UpdateFolder(r, f, newName) ==
    /\ CanEdit
    /\ Has(local[r].folders, f)
    /\ local[r].folders[f].name # newName
    /\ local' = [local EXCEPT ![r].folders[f] =
                    [@ EXCEPT !.name = newName, !.updatedAt = now + 1]]
    /\ Edited(r, "updateFolder", f, newName[2])

RECURSIVE Subtree(_, _)
\* f and the folders below it
Subtree(folders, f) ==
    LET children == {g \in DOMAIN folders : folders[g].parentId = f}
        rest == [g \in (DOMAIN folders) \ ({f} \cup children) |-> folders[g]]
    IN  {f} \cup UNION {Subtree(rest, g) : g \in children}

\* checkNonEmptyPages: a page of the subtree has text
hasNonEmptyPages(S, f) ==
    \E p \in DOMAIN S.pages :
        S.pages[p].folderId \in Subtree(S.folders, f) /\ S.pages[p].content # 0

\* handleDeleteFolder of a folder outside the recycle bin: refused while a page
\* of the subtree has text; else deleteRecursive: db.deletePage for every page
\* of the subtree and db.deleteFolder for every folder of it, each recording
\* its tombstone
DeleteFolder(r, f) ==
    /\ CanEdit
    /\ Has(local[r].folders, f)
    /\ ~hasNonEmptyPages(local[r], f)
    /\ LET t == now + 1
           S == local[r]
           gone == Subtree(S.folders, f)
           pagesGone == {p \in DOMAIN S.pages : S.pages[p].folderId \in gone}
       IN  local' = [local EXCEPT ![r] =
              [folders |-> [g \in (DOMAIN S.folders) \ gone |-> S.folders[g]],
               pages |-> [p \in (DOMAIN S.pages) \ pagesGone |-> S.pages[p]],
               deletedFolders |->
                   [g \in (DOMAIN S.deletedFolders) \cup gone |->
                       IF g \in gone THEN t ELSE S.deletedFolders[g]],
               deletedPages |->
                   [p \in (DOMAIN S.deletedPages) \cup pagesGone |->
                       IF p \in pagesGone THEN t ELSE S.deletedPages[p]]]]
    /\ Edited(r, "deleteFolder", f, 0)

\* saveCurrentPage without a current page: a new page in the selected folder
CreatePage(r, f, content) ==
    /\ CanEdit
    /\ Has(local[r].folders, f)
    /\ LET t == now + 1
       IN  local' = [local EXCEPT ![r].pages =
                        Put(@, <<t>>, [name |-> extractPageTitle(content),
                                       folderId |-> f, content |-> content,
                                       createdAt |-> t, updatedAt |-> t])]
    /\ Edited(r, "createPage", <<now + 1>>, content)

\* saveCurrentPage of the current page after its text changed
UpdatePage(r, p, content) ==
    /\ CanEdit
    /\ Has(local[r].pages, p)
    /\ local[r].pages[p].content # content
    /\ local' = [local EXCEPT ![r].pages[p] =
                    [@ EXCEPT !.name = extractPageTitle(content),
                              !.content = content, !.updatedAt = now + 1]]
    /\ Edited(r, "updatePage", p, content)

\* saveCurrentPage on one device in the millisecond of the latest edit made
\* on the other one: Date.now() gives both the same updatedAt
UpdatePageSameMs(r, p, content) ==
    /\ CanEdit
    /\ Has(local[r].pages, p)
    /\ local[r].pages[p].content # content
    /\ log[Len(log)].k = "edit" /\ log[Len(log)].r # r
    /\ local' = [local EXCEPT ![r].pages[p] =
                    [@ EXCEPT !.name = extractPageTitle(content),
                              !.content = content, !.updatedAt = now]]
    /\ log' = Append(log, Event("edit", r, "updatePage", p, content, NewResult))
    /\ UNCHANGED <<drive, isSyncing, pc, result, start, now, calls, interrupted, net, readIndex>>

\* handleDeletePage: db.deletePage records the tombstone, then deletes the row
DeletePage(r, p) ==
    /\ CanEdit
    /\ Has(local[r].pages, p)
    /\ local' = [local EXCEPT ![r].pages = Remove(@, p),
                              ![r].deletedPages = Put(@, p, now + 1)]
    /\ Edited(r, "deletePage", p, 0)

\* handleDrop, position 'inside' or a drop on the root: the dragged folder
\* becomes the last child of the target; a drop on itself or on one of its
\* descendants (isDescendant) is ignored
MoveFolder(r, f, target) ==
    /\ Running = {}
    /\ Count("move") < MaxMoves
    /\ Has(local[r].folders, f)
    /\ target = NoParent \/ Has(local[r].folders, target)
    /\ target \notin Subtree(local[r].folders, f)
    /\ target # local[r].folders[f].parentId
    /\ local' = [local EXCEPT ![r].folders[f] =
                    [@ EXCEPT !.parentId = target,
                              !.order = Cardinality({g \in DOMAIN local[r].folders :
                                                       local[r].folders[g].parentId = target}),
                              !.updatedAt = now + 1]]
    /\ now' = now + 1
    /\ log' = Append(log, Event("move", r, "handleDrop", f, 0, NewResult))
    /\ UNCHANGED <<drive, isSyncing, pc, result, start, calls, interrupted, net, readIndex>>

\* a page delete that removes the row before it records the tombstone
deletePageRowFirst(id, t) == <<W("silentDeletePage", id, 0), W("addDeletedPage", id, t)>>

\* db.deletePage: addDeletedPage(id) with deletedAt = Date.now(), then the
\* store.delete of the row, each in a transaction of its own
deletePage(id, t) == <<W("addDeletedPage", id, t), W("silentDeletePage", id, 0)>>

\* db.deleteFolder: addDeletedFolder(id), then the store.delete of the row
deleteFolder(id, t) == <<W("addDeletedFolder", id, t), W("silentDeleteFolder", id, 0)>>

\* the page is closed or reloaded between the two transactions of db.deletePage
\* or of db.deleteFolder (a folder without pages and subfolders)
DeleteInterrupted(r) ==
    /\ CanEdit
    /\ \/ \E p \in DOMAIN local[r].pages :
             /\ local' = [local EXCEPT ![r] =
                             ApplyWrites([local |-> local[r], drive |-> drive],
                                         SubSeq(deletePage(p, now + 1), 1, 1)).local]
             /\ Edited(r, "deletePage", p, 1)
       \/ \E f \in DOMAIN local[r].folders :
             /\ Subtree(local[r].folders, f) = {f}
             /\ \A p \in DOMAIN local[r].pages : local[r].pages[p].folderId # f
             /\ local' = [local EXCEPT ![r] =
                             ApplyWrites([local |-> local[r], drive |-> drive],
                                         SubSeq(deleteFolder(f, now + 1), 1, 1)).local]
             /\ Edited(r, "deleteFolder", f, 1)

(* ------------------------------ performSync ---------------------------- *)

\* a guard that lets every call through
AdmittedAlways(flag) == TRUE

\* `if (this.isSyncing) throw`: the call goes on when the flag is down
Admitted(flag) == ~flag

\* the call is admitted: isSyncing is set and the result object is made
Enter(r) ==
    /\ Admitted(isSyncing[r])
    /\ calls' = [calls EXCEPT ![r].made = @ + 1]
    /\ isSyncing' = [isSyncing EXCEPT ![r] = TRUE]
    /\ result' = [result EXCEPT ![r] = NewResult]
    /\ pc' = [pc EXCEPT ![r] = "initialize"]
    /\ start' = [start EXCEPT ![r] = [local |-> local[r], drive |-> drive]]
    /\ now' = now + 1
    /\ UNCHANGED <<local, drive, log, interrupted, net, readIndex>>

\* this.initialize(accessToken) found or made the two Drive folders
Initialize(r) ==
    /\ pc[r] = "initialize"
    /\ pc' = [pc EXCEPT ![r] = "syncFolders"]
    /\ UNCHANGED <<local, drive, isSyncing, result, start, now, log, calls, interrupted, net,
                   readIndex>>

\* a catch block that keeps the message to itself
CaughtQuietly(res, err) == [res EXCEPT !.success = FALSE]

\* the catch block: the message is pushed and success stays false
Caught(res, err) == [res EXCEPT !.errors = Append(@, err), !.success = FALSE]

\* one stage of the try block did `out`: all its writes are applied; then the
\* next stage runs, or the catch block when it threw; after the last stage
\* success is set
StoresAfter(r, out) == ApplyWrites([local |-> local[r], drive |-> drive], out.ws)

ResultAfter(out, next) ==
    IF out.err # NoError THEN Caught(out.res, out.err)
    ELSE IF next = "finally" THEN [out.res EXCEPT !.success = TRUE]
    ELSE out.res

PcAfter(out, next) == IF out.err # NoError THEN "finally" ELSE next

SyncFolders(r) ==
    /\ pc[r] = "syncFolders"
    /\ LET out == syncFolders(local[r], drive, result[r])
       IN  /\ local' = [local EXCEPT ![r] = StoresAfter(r, out).local]
           /\ drive' = StoresAfter(r, out).drive
           /\ result' = [result EXCEPT ![r] = ResultAfter(out, "syncDeletedFolders")]
           /\ pc' = [pc EXCEPT ![r] = PcAfter(out, "syncDeletedFolders")]
    /\ UNCHANGED <<isSyncing, start, now, log, calls, interrupted, net, readIndex>>

SyncDeletedFolders(r) ==
    /\ pc[r] = "syncDeletedFolders"
    /\ LET out == syncDeletedFolders(local[r], drive, result[r])
       IN  /\ local' = [local EXCEPT ![r] = StoresAfter(r, out).local]
           /\ drive' = StoresAfter(r, out).drive
           /\ result' = [result EXCEPT ![r] = ResultAfter(out, "syncPages")]
           /\ pc' = [pc EXCEPT ![r] = PcAfter(out, "syncPages")]
    /\ UNCHANGED <<isSyncing, start, now, log, calls, interrupted, net, readIndex>>

SyncPages(r) ==
    /\ pc[r] = "syncPages"
    /\ LET out == syncPages(local[r], drive, result[r])
       IN  /\ local' = [local EXCEPT ![r] = StoresAfter(r, out).local]
           /\ drive' = StoresAfter(r, out).drive
           /\ result' = [result EXCEPT ![r] = ResultAfter(out, "syncDeletedPages")]
           /\ pc' = [pc EXCEPT ![r] = PcAfter(out, "syncDeletedPages")]
    /\ UNCHANGED <<isSyncing, start, now, log, calls, interrupted, net, readIndex>>

SyncDeletedPages(r) ==
    /\ pc[r] = "syncDeletedPages"
    /\ LET out == syncDeletedPages(local[r], drive, result[r])
       IN  /\ local' = [local EXCEPT ![r] = StoresAfter(r, out).local]
           /\ drive' = StoresAfter(r, out).drive
           /\ result' = [result EXCEPT ![r] = ResultAfter(out, "syncPageContents")]
           /\ pc' = [pc EXCEPT ![r] = PcAfter(out, "syncPageContents")]
    /\ UNCHANGED <<isSyncing, start, now, log, calls, interrupted, net, readIndex>>

SyncPageContents(r) ==
    /\ pc[r] = "syncPageContents"
    /\ LET out == syncPageContents(local[r], drive, result[r], now)
       IN  /\ local' = [local EXCEPT ![r] = StoresAfter(r, out).local]
           /\ drive' = StoresAfter(r, out).drive
           /\ result' = [result EXCEPT ![r] = ResultAfter(out, "finally")]
           /\ pc' = [pc EXCEPT ![r] = PcAfter(out, "finally")]
    /\ UNCHANGED <<isSyncing, start, now, log, calls, interrupted, net, readIndex>>

\* Stage C where the digest is unavailable: the entries of the pages.json it
\* uploads carry the fallback identifier of the local content, read at `now`
SyncPagesFallback(r) ==
    /\ pc[r] = "syncPages"
    /\ LET out == syncPages(local[r], drive, result[r])
           ws == [i \in DOMAIN out.ws |->
                     IF out.ws[i].op = "uploadPagesJson"
                     THEN W("uploadPagesJson", NoParent,
                            [p \in DOMAIN out.ws[i].v |->
                                [out.ws[i].v[p] EXCEPT !.contentHash =
                                    fallbackHash(local[r].pages[p].content, now)]])
                     ELSE out.ws[i]]
           S == ApplyWrites([local |-> local[r], drive |-> drive], ws)
       IN  /\ local' = [local EXCEPT ![r] = S.local]
           /\ drive' = S.drive
           /\ result' = [result EXCEPT ![r] = ResultAfter(out, "syncDeletedPages")]
           /\ pc' = [pc EXCEPT ![r] = PcAfter(out, "syncDeletedPages")]
    /\ UNCHANGED <<isSyncing, start, now, log, calls, interrupted, net, readIndex>>

\* Stage E where the digest is unavailable.  Date.now() has advanced since
\* Stage C or it has not: t is its reading.  localHash is the fallback
\* identifier of the local content at t, so `localHash !== drivePage.contentHash`
\* is false exactly for the entries that carry that identifier; the stage is
\* run on the index as these comparisons see it (`seen`), and its writes are
\* applied to Drive as it is
SyncPageContentsFallback(r) ==
    /\ pc[r] = "syncPageContents"
    /\ \E t \in {now, now + 1} :
          LET seen == [drive EXCEPT !.pagesJson.rows =
                          [p \in DOMAIN @ |->
                              [@[p] EXCEPT !.contentHash =
                                  IF /\ Has(local[r].pages, p)
                                     /\ @ = fallbackHash(local[r].pages[p].content, t)
                                  THEN calculateContentHash(local[r].pages[p].content)
                                  ELSE <<"another identifier">>]]]
              out == syncPageContents(local[r], seen, result[r], t)
              S == ApplyWrites([local |-> local[r], drive |-> drive], out.ws)
          IN  /\ local' = [local EXCEPT ![r] = S.local]
              /\ drive' = S.drive
              /\ result' = [result EXCEPT ![r] = ResultAfter(out, "finally")]
              /\ pc' = [pc EXCEPT ![r] = PcAfter(out, "finally")]
              /\ now' = t
    /\ UNCHANGED <<isSyncing, start, log, calls, interrupted, net, readIndex>>

\* a return that leaves the flag as it is
FinallySkipped(flags, r) == flags

\* `finally { this.isSyncing = false }`
Finally(flags, r) == [flags EXCEPT ![r] = FALSE]

\* the finally block and the return of the result
Return(r) ==
    /\ pc[r] = "finally"
    /\ isSyncing' = Finally(isSyncing, r)
    /\ pc' = [pc EXCEPT ![r] = "idle"]
    /\ log' = Append(log, Event("sync", r, "performSync", NoParent, 0, result[r]))
    /\ UNCHANGED <<local, drive, result, start, now, calls, interrupted, net, readIndex>>

\* a performSync call while a run of the same instance is in flight: it throws
\* 'Sync already in progress' before anything else happens
Rejected(r) ==
    /\ ~Admitted(isSyncing[r])
    /\ calls[r].thrown < MaxRejected
    /\ calls' = [calls EXCEPT ![r].made = @ + 1, ![r].thrown = @ + 1]
    /\ UNCHANGED <<local, drive, isSyncing, pc, result, start, now, log, interrupted, net,
                   readIndex>>

\* this.initialize(accessToken) throws: a Drive request of it failed
InitializeFails(r) ==
    /\ pc[r] = "initialize"
    /\ result' = [result EXCEPT ![r] = Caught(@, "Failed to search app folder")]
    /\ pc' = [pc EXCEPT ![r] = "finally"]
    /\ UNCHANGED <<local, drive, isSyncing, start, now, log, calls, interrupted, net, readIndex>>

Stages == {"syncFolders", "syncDeletedFolders", "syncPages", "syncDeletedPages",
           "syncPageContents"}

\* what the stage replica r is at does from the current stores
StageOut(r) ==
    CASE pc[r] = "syncFolders" -> syncFolders(local[r], drive, result[r])
      [] pc[r] = "syncDeletedFolders" -> syncDeletedFolders(local[r], drive, result[r])
      [] pc[r] = "syncPages" -> syncPages(local[r], drive, result[r])
      [] pc[r] = "syncDeletedPages" -> syncDeletedPages(local[r], drive, result[r])
      [] pc[r] = "syncPageContents" -> syncPageContents(local[r], drive, result[r], now)

\* a Drive request of the stage fails after n of the stage's writes: the stage
\* throws and the catch block takes over
StageThrows(r) ==
    /\ pc[r] \in Stages
    /\ \E n \in 0..Len(StageOut(r).ws) :
          LET S == ApplyWrites([local |-> local[r], drive |-> drive],
                               SubSeq(StageOut(r).ws, 1, n))
          IN  /\ local' = [local EXCEPT ![r] = S.local]
              /\ drive' = S.drive
    /\ result' = [result EXCEPT ![r] = Caught(@, "Failed to search file")]
    /\ pc' = [pc EXCEPT ![r] = "finally"]
    /\ UNCHANGED <<isSyncing, start, now, log, calls, interrupted, net, readIndex>>

\* Stage E: the PATCH or the POST of the uploadPageContent that would be the
\* stage's write n + 1 is refused. uploadOrUpdateFile throws, nothing around
\* the call in the upload pass catches it, and the catch block of performSync
\* takes over with the counters as the n writes left them
UploadPageContentFails(r) ==
    /\ pc[r] = "syncPageContents"
    /\ \E n \in 0..(Len(StageOut(r).ws) - 1) :
          LET ws == StageOut(r).ws
              S == ApplyWrites([local |-> local[r], drive |-> drive], SubSeq(ws, 1, n))
              uploaded == Cardinality({i \in 1..n : ws[i].op = "uploadPageContent"})
              err == IF Has(S.drive.pageFiles, ws[n + 1].id)
                     THEN "Failed to update file" ELSE "Failed to create file"
          IN  /\ ws[n + 1].op = "uploadPageContent"
              /\ local' = [local EXCEPT ![r] = S.local]
              /\ drive' = S.drive
              /\ result' = [result EXCEPT
                               ![r] = Caught([@ EXCEPT !.pagesUploaded = @ + uploaded], err)]
    /\ pc' = [pc EXCEPT ![r] = "finally"]
    /\ UNCHANGED <<isSyncing, start, now, log, calls, interrupted, net, readIndex>>

\* the index files, by their field of the Drive namespace
IndexFiles == {"foldersJson", "deletedFoldersJson", "pagesJson", "deletedPagesJson"}

\* between two runs a client of another format version rewrites an index file:
\* the rows stay, the version tag is one the deserializers do not recognize
ForeignWrite(f) ==
    /\ Running = {}
    /\ Count("foreign") < MaxForeign
    /\ drive[f].exists
    /\ drive' = [drive EXCEPT ![f].version = Version + 1]
    /\ log' = Append(log, Event("foreign", "A", f, NoParent, 0, NewResult))
    /\ UNCHANGED <<local, isSyncing, pc, result, start, now, calls, interrupted, net, readIndex>>

\* the index file a stage downloads first
IndexOf(at) ==
    CASE at = "syncFolders" -> "foldersJson"
      [] at = "syncDeletedFolders" -> "deletedFoldersJson"
      [] at = "syncPages" -> "pagesJson"
      [] at = "syncDeletedPages" -> "deletedPagesJson"
      [] at = "syncPageContents" -> "pagesJson"

StageAfter(at) ==
    CASE at = "syncFolders" -> "syncDeletedFolders"
      [] at = "syncDeletedFolders" -> "syncPages"
      [] at = "syncPages" -> "syncDeletedPages"
      [] at = "syncDeletedPages" -> "syncPageContents"
      [] at = "syncPageContents" -> "finally"

\* download*Json when the listing or the download is refused: the catch block
\* of the method logs and returns null, as it does for a file that is not there
DownloadRefused(D, f) == [D EXCEPT ![f] = AbsentFile]

\* a stage whose download of its index file is refused: the stage goes on
\* with the null it got
IndexDownloadFails(r) ==
    /\ pc[r] \in Stages
    /\ Count("refused") < MaxRefusals
    /\ drive[IndexOf(pc[r])].exists
    /\ LET unread == DownloadRefused(drive, IndexOf(pc[r]))
           out == CASE pc[r] = "syncFolders" -> syncFolders(local[r], unread, result[r])
                    [] pc[r] = "syncDeletedFolders" ->
                         syncDeletedFolders(local[r], unread, result[r])
                    [] pc[r] = "syncPages" -> syncPages(local[r], unread, result[r])
                    [] pc[r] = "syncDeletedPages" ->
                         syncDeletedPages(local[r], unread, result[r])
                    [] pc[r] = "syncPageContents" ->
                         syncPageContents(local[r], unread, result[r], now)
       IN  /\ local' = [local EXCEPT ![r] = StoresAfter(r, out).local]
           /\ drive' = StoresAfter(r, out).drive
           /\ result' = [result EXCEPT ![r] = ResultAfter(out, StageAfter(pc[r]))]
           /\ pc' = [pc EXCEPT ![r] = PcAfter(out, StageAfter(pc[r]))]
    /\ log' = Append(log, Event("refused", r, IndexOf(pc[r]), NoParent, 0, NewResult))
    /\ UNCHANGED <<isSyncing, start, now, calls, interrupted, net, readIndex>>

TombstoneStages == {"syncDeletedFolders", "syncDeletedPages"}

\* Stage B or D, first half: the tombstone index is downloaded
DownloadDeleted(r) ==
    /\ pc[r] \in TombstoneStages
    /\ readIndex[r] = NothingRead
    /\ readIndex' = [readIndex EXCEPT ![r] = drive[IndexOf(pc[r])]]
    /\ UNCHANGED <<local, drive, isSyncing, pc, result, start, now, log, calls, interrupted,
                   net>>

\* Stage B or D, second half: the tombstones that were downloaded are applied
\* and merged with the local ones, and the merge is uploaded over whatever
\* the index file holds by then
MergeDeleted(r) ==
    /\ pc[r] \in TombstoneStages
    /\ readIndex[r] # NothingRead
    /\ LET seen == [drive EXCEPT ![IndexOf(pc[r])] = readIndex[r]]
           out == IF pc[r] = "syncDeletedFolders"
                  THEN syncDeletedFolders(local[r], seen, result[r])
                  ELSE syncDeletedPages(local[r], seen, result[r])
       IN  /\ local' = [local EXCEPT ![r] = StoresAfter(r, out).local]
           /\ drive' = StoresAfter(r, out).drive
           /\ result' = [result EXCEPT ![r] = ResultAfter(out, StageAfter(pc[r]))]
           /\ pc' = [pc EXCEPT ![r] = PcAfter(out, StageAfter(pc[r]))]
    /\ readIndex' = [readIndex EXCEPT ![r] = NothingRead]
    /\ UNCHANGED <<isSyncing, start, now, log, calls, interrupted, net>>

\* Stage D in which one deletePageContent request is refused: the catch block
\* of the method logs the error and returns, and the stage goes on
DeleteRefused(r) ==
    /\ pc[r] = "syncDeletedPages"
    /\ Count("refused") < MaxRefusals
    /\ LET out == syncDeletedPages(local[r], drive, result[r])
       IN  \E i \in {j \in DOMAIN out.ws : out.ws[j].op = "deletePageContent"} :
             LET ws == SubSeq(out.ws, 1, i - 1) \o SubSeq(out.ws, i + 1, Len(out.ws))
                 S == ApplyWrites([local |-> local[r], drive |-> drive], ws)
             IN  /\ local' = [local EXCEPT ![r] = S.local]
                 /\ drive' = S.drive
                 /\ result' = [result EXCEPT ![r] = ResultAfter(out, "syncPageContents")]
                 /\ pc' = [pc EXCEPT ![r] = PcAfter(out, "syncPageContents")]
                 /\ log' = Append(log, Event("refused", r, "deletePageContent",
                                             out.ws[i].id, 0, NewResult))
    /\ UNCHANGED <<isSyncing, start, now, calls, interrupted, net, readIndex>>

\* a getAllDeleted* failure that is thrown on to performSync
DeletedUnreadableThrows(res) == Out(<<>>, res, "InvalidStateError")

\* `catch (error) { console.warn(...); return }` around getAllDeletedFolders
\* and getAllDeletedPages: the stage returns before its first Drive request
DeletedUnreadable(res) == Out(<<>>, res, NoError)

\* Stage B or D on a Local Store whose tombstone collection cannot be read
GetAllDeletedFails(r) ==
    /\ pc[r] \in TombstoneStages
    /\ Count("unready") < MaxUnready
    /\ LET out == DeletedUnreadable(result[r])
       IN  /\ local' = [local EXCEPT ![r] = StoresAfter(r, out).local]
           /\ drive' = StoresAfter(r, out).drive
           /\ result' = [result EXCEPT ![r] = ResultAfter(out, StageAfter(pc[r]))]
           /\ pc' = [pc EXCEPT ![r] = PcAfter(out, StageAfter(pc[r]))]
    /\ log' = Append(log, Event("unready", r, pc[r], NoParent, 0, NewResult))
    /\ UNCHANGED <<isSyncing, start, now, calls, interrupted, net, readIndex>>

\* the page is closed or reloaded after n of the stage's writes: the run is
\* gone, and the SyncManagerV2 instance of the next page load starts with
\* isSyncing = false
Crash(r) ==
    /\ pc[r] \in Stages
    /\ Count("crash") < MaxCrashes
    /\ \E n \in 0..Len(StageOut(r).ws) :
          LET S == ApplyWrites([local |-> local[r], drive |-> drive],
                               SubSeq(StageOut(r).ws, 1, n))
          IN  /\ local' = [local EXCEPT ![r] = S.local]
              /\ drive' = S.drive
              /\ log' = Append(log, Event("crash", r, pc[r], NoParent, n, result[r]))
    /\ isSyncing' = [isSyncing EXCEPT ![r] = FALSE]
    /\ pc' = [pc EXCEPT ![r] = "idle"]
    /\ interrupted' = [interrupted EXCEPT ![r] = start[r]]
    /\ UNCHANGED <<result, start, now, calls, net, readIndex>>

\* the five stages of one run, from the stores S at time t, as one function:
\* the stores and the result when the run returns
RECURSIVE RunFrom(_, _, _, _)
RunFrom(S, res, at, t) ==
    IF at = "finally" THEN [local |-> S.local, drive |-> S.drive, res |-> res]
    ELSE
    LET out == CASE at = "syncFolders" -> syncFolders(S.local, S.drive, res)
                 [] at = "syncDeletedFolders" -> syncDeletedFolders(S.local, S.drive, res)
                 [] at = "syncPages" -> syncPages(S.local, S.drive, res)
                 [] at = "syncDeletedPages" -> syncDeletedPages(S.local, S.drive, res)
                 [] at = "syncPageContents" -> syncPageContents(S.local, S.drive, res, t)
        next == CASE at = "syncFolders" -> "syncDeletedFolders"
                  [] at = "syncDeletedFolders" -> "syncPages"
                  [] at = "syncPages" -> "syncDeletedPages"
                  [] at = "syncDeletedPages" -> "syncPageContents"
                  [] at = "syncPageContents" -> "finally"
        S2 == ApplyWrites(S, out.ws)
    IN  RunFrom(S2, ResultAfter(out, next), PcAfter(out, next), t)

performSync(L, D, t) == RunFrom([local |-> L, drive |-> D], NewResult, "syncFolders", t)

\* the requests that change something, Local Store and Drive, that one run
\* makes from the stores S: the writes of its stages in order
RECURSIVE WritesFrom(_, _, _, _)
WritesFrom(S, res, at, t) ==
    IF at = "finally" THEN <<>>
    ELSE
    LET out == CASE at = "syncFolders" -> syncFolders(S.local, S.drive, res)
                 [] at = "syncDeletedFolders" -> syncDeletedFolders(S.local, S.drive, res)
                 [] at = "syncPages" -> syncPages(S.local, S.drive, res)
                 [] at = "syncDeletedPages" -> syncDeletedPages(S.local, S.drive, res)
                 [] at = "syncPageContents" -> syncPageContents(S.local, S.drive, res, t)
        next == CASE at = "syncFolders" -> "syncDeletedFolders"
                  [] at = "syncDeletedFolders" -> "syncPages"
                  [] at = "syncPages" -> "syncDeletedPages"
                  [] at = "syncDeletedPages" -> "syncPageContents"
                  [] at = "syncPageContents" -> "finally"
    IN  out.ws \o WritesFrom(ApplyWrites(S, out.ws), ResultAfter(out, next),
                             PcAfter(out, next), t)

(* ----------------------- forceUploadAll, forceDownloadAll -------------- *)

\* the requests of forceUploadAll in order: the four index files, then the
\* content of every local page
forceUploadAll(L) ==
    LET ids == Ordered(DOMAIN L.pages)
    IN  <<W("uploadFoldersJson", NoParent, serializeFolders(L.folders)),
          W("uploadPagesJson", NoParent, serializePages(L.pages)),
          W("uploadDeletedFoldersJson", NoParent, serializeDeleted(L.deletedFolders)),
          W("uploadDeletedPagesJson", NoParent, serializeDeleted(L.deletedPages))>>
        \o [i \in 1..Len(ids) |->
               W("uploadPageContent", ids[i], serializePageContent(L.pages[ids[i]]))]

\* the requests of forceDownloadAll in order: the local rows and tombstones are
\* cleared, then every folder of folders.json is created, every page of
\* pages.json whose content download is truthy, and every remote tombstone
forceDownloadAll(L, D) ==
    LET localFolders == Ordered(DOMAIN L.folders)
        localPages == Ordered(DOMAIN L.pages)
        folders == Ordered(DOMAIN D.foldersJson.rows)
        pages == SelectSeq(Ordered(DOMAIN D.pagesJson.rows), LAMBDA p :
                     Has(D.pageFiles, p) /\ Truthy(D.pageFiles[p]))
        deletedFolders == Ordered(DOMAIN Rows(D.deletedFoldersJson))
        deletedPages == Ordered(DOMAIN Rows(D.deletedPagesJson))
    IN  [i \in 1..Len(localFolders) |-> W("silentDeleteFolder", localFolders[i], 0)]
        \o [i \in 1..Len(localPages) |-> W("silentDeletePage", localPages[i], 0)]
        \o <<W("clearDeletedFolders", NoParent, 0), W("clearDeletedPages", NoParent, 0)>>
        \o [i \in 1..Len(folders) |->
               W("createFolder", folders[i], D.foldersJson.rows[folders[i]])]
        \o [i \in 1..Len(pages) |->
               W("createPage", pages[i],
                 [name |-> D.pagesJson.rows[pages[i]].name,
                  folderId |-> D.pagesJson.rows[pages[i]].folderId,
                  content |-> deserializePageContent(D.pageFiles[pages[i]]),
                  createdAt |-> D.pagesJson.rows[pages[i]].createdAt,
                  updatedAt |-> D.pagesJson.rows[pages[i]].updatedAt])]
        \o [i \in 1..Len(deletedFolders) |->
               W("addDeletedFolder", deletedFolders[i],
                 D.deletedFoldersJson.rows[deletedFolders[i]])]
        \o [i \in 1..Len(deletedPages) |->
               W("addDeletedPage", deletedPages[i],
                 D.deletedPagesJson.rows[deletedPages[i]])]

\* { success, errors } of a bulk operation, in the shape of a result
Bulk(success, errors) == [NewResult EXCEPT !.success = success, !.errors = errors]

\* forceUploadAll: initialize throws and nothing is written, or every request
\* of it is done
ForceUploadAll(r) ==
    /\ \E ok \in BOOLEAN :
          /\ drive' = IF ok
                      THEN ApplyWrites([local |-> local[r], drive |-> drive],
                                       forceUploadAll(local[r])).drive
                      ELSE drive
          /\ log' = Append(log,
                       Event("force", r, "forceUploadAll", NoParent, 0,
                             IF ok THEN Bulk(TRUE, <<>>)
                             ELSE Bulk(FALSE, <<"Failed to search app folder">>)))
    /\ UNCHANGED <<local, isSyncing, pc, result, start, now, calls, interrupted, net, readIndex>>

\* forceDownloadAll: it throws before any write when folders.json or pages.json
\* is not on Drive
ForceDownloadAll(r) ==
    /\ IF ~drive.foldersJson.exists \/ ~drive.pagesJson.exists
       THEN /\ local' = local
            /\ log' = Append(log,
                         Event("force", r, "forceDownloadAll", NoParent, 0,
                               Bulk(FALSE, <<"no folders.json or pages.json on Drive">>)))
       ELSE /\ local' = [local EXCEPT ![r] =
                            ApplyWrites([local |-> local[r], drive |-> drive],
                                        forceDownloadAll(local[r], drive)).local]
            /\ log' = Append(log,
                         Event("force", r, "forceDownloadAll", NoParent, 0,
                               Bulk(TRUE, <<>>)))
    /\ UNCHANGED <<drive, isSyncing, pc, result, start, now, calls, interrupted, net, readIndex>>

\* forceDownloadAll in which the Local Store rejects a write (a delete, a
\* clear, a createFolder, a createPage or an addDeleted*): the n writes before
\* it are done, the exception reaches the catch block and success is false
ForceDownloadAllFails(r) ==
    /\ drive.foldersJson.exists
    /\ drive.pagesJson.exists
    /\ LET ws == forceDownloadAll(local[r], drive)
       IN  \E n \in 0..(Len(ws) - 1) :
             /\ local' = [local EXCEPT ![r] =
                             ApplyWrites([local |-> local[r], drive |-> drive],
                                         SubSeq(ws, 1, n)).local]
             /\ log' = Append(log,
                          Event("force", r, "forceDownloadAll", NoParent, n,
                                Bulk(FALSE, <<"QuotaExceededError">>)))
    /\ UNCHANGED <<drive, isSyncing, pc, result, start, now, calls, interrupted, net, readIndex>>

(* ------------------------------ the test panel ------------------------- *)

\* testSimulateConflict: the first local page gets one new text on Drive and
\* another one locally, and pages.json is rewritten from the local pages with
\* that page carrying the Drive text and a later updatedAt
SimulateConflict(r) ==
    /\ CanEdit
    /\ DOMAIN local[r].pages # {}
    /\ LET testPage == Ordered(DOMAIN local[r].pages)[1]
           old == local[r].pages[testPage]
       IN  \E simulatedContent, localModifiedContent \in (1..MaxContent) \ {old.content} :
              /\ simulatedContent # localModifiedContent
              /\ local' = [local EXCEPT ![r].pages[testPage] =
                              [old EXCEPT !.content = localModifiedContent,
                                          !.updatedAt = now + 1]]
              /\ drive' = [drive EXCEPT
                              !.pageFiles = Put(@, testPage, simulatedContent),
                              !.pagesJson = IndexFile(serializePages(
                                  [local[r].pages EXCEPT ![testPage] =
                                      [old EXCEPT !.content = simulatedContent,
                                                  !.updatedAt = now + 2]]))]
              /\ log' = Append(log, Event("edit", r, "testSimulateConflict",
                                          testPage, localModifiedContent, NewResult))
    /\ now' = now + 2
    /\ UNCHANGED <<isSyncing, pc, result, start, calls, interrupted, net, readIndex>>

(* --------------------------- the specification ------------------------- *)

\* one replica syncs at a time and the user edits between runs
MaySync == Running = {} /\ Count("sync") < MaxSyncs

Rename(r) ==
    \E f \in DOMAIN local[r].folders, n \in 1..MaxName :
        UpdateFolder(r, f, <<"renamed", n>>)

RemoveFolder(r) == \E f \in DOMAIN local[r].folders : DeleteFolder(r, f)

NewPage(r) == \E f \in DOMAIN local[r].folders, c \in Contents : CreatePage(r, f, c)

EditPage(r) == \E p \in DOMAIN local[r].pages, c \in Contents : UpdatePage(r, p, c)

RemovePage(r) == \E p \in DOMAIN local[r].pages : DeletePage(r, p)

UserStep(r) ==
    \/ CreateFolder(r)
    \/ Rename(r)
    \/ RemoveFolder(r)
    \/ NewPage(r)
    \/ EditPage(r)
    \/ RemovePage(r)

RunStep(r) ==
    \/ Initialize(r)
    \/ SyncFolders(r)
    \/ SyncDeletedFolders(r)
    \/ SyncPages(r)
    \/ SyncDeletedPages(r)
    \/ SyncPageContents(r)
    \/ Return(r)

Next ==
    \E r \in Replicas :
        \/ UserStep(r)
        \/ MaySync /\ Enter(r)
        \/ RunStep(r)

Spec == Init /\ [][Next]_vars

\* calls arrive at any moment, also while a run of the instance is in flight;
\* the runs of the two replicas interleave stage by stage
MayCall == calls["A"].made + calls["B"].made < MaxSyncs

NextGuard ==
    \E r \in Replicas :
        \/ Rename(r)
        \/ MayCall /\ Enter(r)
        \/ MayCall /\ Rejected(r)
        \/ RunStep(r)

SpecGuard == Init /\ [][NextGuard]_vars

NoCallYet == calls["A"].made + calls["B"].made = 0

\* runs whose Drive requests may fail; every await of a run settles, so a run
\* in flight takes its next step
NextLive ==
    \E r \in Replicas :
        \/ NoCallYet /\ Rename(r)
        \/ MaySync /\ Enter(r)
        \/ RunStep(r)
        \/ InitializeFails(r)
        \/ StageThrows(r)

Settles(r) == RunStep(r) \/ InitializeFails(r) \/ StageThrows(r)

SpecLive == Init /\ [][NextLive]_vars /\ \A r \in Replicas : WF_vars(Settles(r))

\* two new installations: the users edit, then the first performSync runs
\* against the empty Drive namespace
NextSeed ==
    \E r \in Replicas :
        \/ NoCallYet /\ UserStep(r)
        \/ NoCallYet /\ Enter(r)
        \/ RunStep(r)

SpecSeed == InitFresh /\ [][NextSeed]_vars

\* runs that a crash may cut short; a run that crashed counts as a run
MayRun == Running = {} /\ Count("sync") + Count("crash") < MaxSyncs

\* the user edits before the first run
NoRunYet == Count("sync") + Count("crash") = 0

NextCrash ==
    \E r \in Replicas :
        \/ NoRunYet /\ UserStep(r)
        \/ MayRun /\ Enter(r)
        \/ RunStep(r)
        \/ Crash(r)

SpecCrash == Init /\ [][NextCrash]_vars

\* runs and bulk operations, one at a time
MayStart == Running = {} /\ Count("sync") + Count("force") < MaxSyncs

\* the bulk operations of the settings menu
MayForce == MayStart /\ Count("force") < MaxForce

\* replica A's user edits before the first run or bulk operation; replica B's
\* user changes nothing
NothingYet == NoCallYet /\ Count("force") = 0

NextForce ==
    \/ NothingYet /\ UserStep("A")
    \/ \E r \in Replicas :
          \/ MayStart /\ Enter(r)
          \/ RunStep(r)
          \/ MayForce /\ ForceUploadAll(r)
          \/ MayForce /\ ForceDownloadAll(r)

SpecForce == Init /\ [][NextForce]_vars

\* the test panel: conflicts are simulated and full syncs run
NextPanel ==
    \E r \in Replicas :
        \/ SimulateConflict(r)
        \/ MaySync /\ Enter(r)
        \/ RunStep(r)

SpecPanel == Init /\ [][NextPanel]_vars

\* two clients call the adapter on one namespace; every request may fail, and
\* the two requests of an upload interleave with the other client's requests
NextAdapter ==
    \E r \in Replicas :
        \/ DownloadPageContent(r)
        \/ DeletePageContent(r)
        \/ ListAllPageFiles(r)
        \/ UploadSearch(r)
        \/ UploadWrite(r)

SpecAdapter == InitFresh /\ [][NextAdapter]_vars


\* the users edit, then the runs follow one another; an upload of a page's
\* content may be refused
NextUpload ==
    \E r \in Replicas :
        \/ NoCallYet /\ UserStep(r)
        \/ MaySync /\ Enter(r)
        \/ RunStep(r)
        \/ UploadPageContentFails(r)

SpecUpload == Init /\ [][NextUpload]_vars


\* the users edit, then the runs follow one another; an index file may get a
\* version tag of another format
NextVersion ==
    \/ \E f \in IndexFiles : ForeignWrite(f)
    \/ \E r \in Replicas :
          \/ NoCallYet /\ UserStep(r)
          \/ MaySync /\ Enter(r)
          \/ RunStep(r)

SpecVersion == Init /\ [][NextVersion]_vars


\* the users edit, then the runs follow one another; the download of an index
\* file may be refused
NextRefused ==
    \E r \in Replicas :
        \/ NoCallYet /\ UserStep(r)
        \/ MaySync /\ Enter(r)
        \/ RunStep(r)
        \/ IndexDownloadFails(r)

SpecRefused == Init /\ [][NextRefused]_vars


\* the users edit, also in the same millisecond on the two devices, then the
\* runs and the bulk uploads follow one another
EditPageSameMs(r) ==
    \E p \in DOMAIN local[r].pages, c \in Contents : UpdatePageSameMs(r, p, c)

NextTie ==
    \E r \in Replicas :
        \/ NothingYet /\ UserStep(r)
        \/ NothingYet /\ EditPageSameMs(r)
        \/ MayStart /\ Enter(r)
        \/ RunStep(r)
        \/ MayForce /\ ForceUploadAll(r)

SpecTie == Init /\ [][NextTie]_vars


\* the users delete, then the runs of the two devices interleave request by
\* request in the tombstone stages and stage by stage elsewhere
NextRace ==
    \E r \in Replicas :
        \/ NoCallYet /\ RemoveFolder(r)
        \/ NoCallYet /\ RemovePage(r)
        \/ NoCallYet /\ EditPage(r)
        \/ MayCall /\ Enter(r)
        \/ Initialize(r)
        \/ SyncFolders(r)
        \/ DownloadDeleted(r)
        \/ MergeDeleted(r)
        \/ SyncPages(r)
        \/ SyncPageContents(r)
        \/ Return(r)

SpecRace == Init /\ [][NextRace]_vars


\* runs that follow one another over tombstone collections of every shape
NextMerge ==
    \E r \in Replicas :
        \/ MaySync /\ Enter(r)
        \/ RunStep(r)

SpecMerge == InitMerge /\ [][NextMerge]_vars


\* the users edit, then the runs follow one another; the request that deletes
\* a content file may be refused
NextDelete ==
    \E r \in Replicas :
        \/ NoCallYet /\ UserStep(r)
        \/ MaySync /\ Enter(r)
        \/ RunStep(r)
        \/ DeleteRefused(r)

SpecDelete == Init /\ [][NextDelete]_vars


\* the users edit, then the runs follow one another; the tombstone collection
\* of the Local Store may be unreadable
NextUnready ==
    \E r \in Replicas :
        \/ NoCallYet /\ UserStep(r)
        \/ MaySync /\ Enter(r)
        \/ RunStep(r)
        \/ GetAllDeletedFails(r)

SpecUnready == Init /\ [][NextUnready]_vars


\* the bulk operations of the settings menu are called at any moment, also
\* while a run of the same instance is in flight: neither of them reads or
\* sets isSyncing
NextOverlap ==
    \E r \in Replicas :
        \/ NothingYet /\ Rename(r)
        \/ MaySync /\ Enter(r)
        \/ RunStep(r)
        \/ Count("force") < MaxForce /\ ForceUploadAll(r)
        \/ Count("force") < MaxForce /\ ForceDownloadAll(r)

SpecOverlap == Init /\ [][NextOverlap]_vars


\* the bulk operations on a Local Store that may reject a write of the restore
NextRestore ==
    \/ NothingYet /\ UserStep("A")
    \/ \E r \in Replicas :
          \/ MayForce /\ ForceUploadAll(r)
          \/ MayForce /\ ForceDownloadAll(r)
          \/ MayForce /\ ForceDownloadAllFails(r)

SpecRestore == Init /\ [][NextRestore]_vars


\* the users edit and sync, and the page may be closed in the middle of a delete
NextInterrupted ==
    \E r \in Replicas :
        \/ UserStep(r)
        \/ DeleteInterrupted(r)
        \/ MaySync /\ Enter(r)
        \/ RunStep(r)

SpecInterrupted == Init /\ [][NextInterrupted]_vars


\* before the first run A's user moves a folder into another one and B's user
\* deletes folders; between the runs A's user renames folders and B's user
\* moves them
NextForest ==
    \/ NoCallYet /\ RemoveFolder("B")
    \/ Rename("A")
    \/ \E f \in DOMAIN local["A"].folders :
          \E target \in DOMAIN local["A"].folders : NoCallYet /\ MoveFolder("A", f, target)
    \/ \E f \in DOMAIN local["B"].folders :
          \E target \in DOMAIN local["B"].folders : MoveFolder("B", f, target)
    \/ \E r \in Replicas :
        \/ Running = {} /\ Count("sync") < MaxForestSyncs /\ Enter(r)
        \/ RunStep(r)

SpecForest == InitForest /\ [][NextForest]_vars


\* the users edit the shared page and sync on devices without
\* crypto.subtle.digest
NextFallback ==
    \E r \in Replicas :
        \/ EditPage(r)
        \/ MaySync /\ Enter(r)
        \/ Initialize(r)
        \/ SyncFolders(r)
        \/ SyncDeletedFolders(r)
        \/ SyncPagesFallback(r)
        \/ SyncDeletedPages(r)
        \/ SyncPageContentsFallback(r)
        \/ Return(r)

SpecFallback == InitShared /\ [][NextFallback]_vars


(* ------------------------------- the claims --------------------------- *)

IsConflictCopy(id) == Len(id) > 1

\* what two replicas must agree on: folder ids and names, page ids, names and
\* content, conflict copies aside
FoldersView(S) == [f \in DOMAIN S.folders |-> S.folders[f].name]

PagesView(S) ==
    [p \in {q \in DOMAIN S.pages : ~IsConflictCopy(q)} |->
        [name |-> S.pages[p].name, content |-> S.pages[p].content]]

\* the last n events of the log are runs of the replicas rs, in this order
LastRuns(rs) ==
    /\ Len(log) >= Len(rs)
    /\ \A i \in 1..Len(rs) :
          LET e == log[Len(log) - Len(rs) + i]
          IN  e.k = "sync" /\ e.r = rs[i]

Idle == \A r \in Replicas : pc[r] = "idle"

\* the event n places before the end of the log (0 is the last one)
Last(n) == log[Len(log) - n]

\* the run of r has left its try block: result[r] is what the call returns
RunEnded(r) == pc[r] = "finally"

\* the six transfer counters of a result
Counters(res) ==
    <<res.foldersUploaded, res.foldersDownloaded, res.foldersDeleted,
      res.pagesUploaded, res.pagesDownloaded, res.pagesDeleted>>

\* C1: after the runs performSync(A), performSync(B), performSync(A), with no
\* local edit in between, A and B hold the same folders (ids, names) and the
\* same pages (ids, names, content), conflict copies aside.
C1_Convergence ==
    (Idle /\ LastRuns(<<"A", "B", "A">>))
        => /\ FoldersView(local["A"]) = FoldersView(local["B"])
           /\ PagesView(local["A"]) = PagesView(local["B"])

\* the shared page <<2>> was edited on A and then on B, to two different
\* non-empty texts; B ran performSync and then A did
C2_Scenario ==
    /\ Idle
    /\ Len(log) = 5
    /\ log[1].op = "shared"
    /\ log[2].k = "edit" /\ log[2].r = "A" /\ log[2].op = "updatePage"
    /\ log[3].k = "edit" /\ log[3].r = "B" /\ log[3].op = "updatePage"
    /\ log[2].c # 0 /\ log[3].c # 0 /\ log[2].c # log[3].c
    /\ log[4].k = "sync" /\ log[4].r = "B"
    /\ log[5].k = "sync" /\ log[5].r = "A"

\* C2: page P is shared, A edits it to C1 without syncing, B edits it to C2 and
\* syncs, then A syncs: A ends with P holding C2 under B's name and updatedAt,
\* with exactly one more page, a conflict copy holding C1, and conflicts = 1.
C2_ConflictGeneration ==
    C2_Scenario =>
        LET mine == local["A"].pages
            copies == (DOMAIN mine) \ {<<2>>}
        IN  /\ Has(mine, <<2>>)
            /\ mine[<<2>>].content = log[3].c
            /\ mine[<<2>>].name = local["B"].pages[<<2>>].name
            /\ mine[<<2>>].updatedAt = local["B"].pages[<<2>>].updatedAt
            /\ Cardinality(copies) = 1
            /\ \A q \in copies : IsConflictCopy(q) /\ mine[q].content = log[2].c
            /\ log[5].res.conflicts = 1

\* C3: a run that follows a successful run of the same replica, with no edit
\* and no run of the other replica in between, returns a result whose six
\* transfer counters are all 0.
C3_Idempotence ==
    (Idle /\ Len(log) >= 3
          /\ Last(0).k = "sync" /\ Last(1).k = "sync" /\ Last(0).r = Last(1).r
          /\ Last(1).res.success)
        => Counters(Last(0).res) = <<0, 0, 0, 0, 0, 0>>

\* replica A deleted the shared folder or page E as its last edit and ran
\* performSync, then replica B, which never edited anything, ran performSync
C4_Scenario ==
    /\ Idle
    /\ Len(log) >= 4
    /\ log[1].op = "shared"
    /\ Last(2).k = "edit" /\ Last(2).r = "A"
    /\ Last(2).op \in {"deletePage", "deleteFolder"}
    /\ Last(1).k = "sync" /\ Last(1).r = "A"
    /\ Last(0).k = "sync" /\ Last(0).r = "B"
    /\ \A i \in 1..Len(log) : ~(log[i].k = "edit" /\ log[i].r = "B")

\* C4: E was deleted by the user on A, A ran performSync, then B, which still
\* held E and had no tombstone for it, ran performSync: E is gone from B's
\* store and B's result has success = true and no error.
C4_TombstonePrecedence ==
    C4_Scenario =>
        /\ ~Has(local["B"].pages, Last(2).id)
        /\ ~Has(local["B"].folders, Last(2).id)
        /\ Last(0).res.success
        /\ Last(0).res.errors = <<>>

\* a step in which replica r's instance receives a performSync call while a
\* run of it is in flight
CallWhileSyncing(r) == isSyncing[r] /\ calls'[r].made = calls[r].made + 1

\* C5: a performSync call that arrives while a run of the same instance is in
\* flight throws 'Sync already in progress': it starts no run, reads and writes
\* nothing on either side, and isSyncing stays true for the run in flight.
C5_ReentrancyGuard ==
    [][\A r \in Replicas :
          CallWhileSyncing(r) =>
              /\ calls'[r].thrown = calls[r].thrown + 1
              /\ isSyncing'[r]
              /\ UNCHANGED <<local, drive, isSyncing, pc, result, start, now, log>>]_vars

\* a call of A was rejected while A's run was past its first stage
C5_Witness ==
    /\ calls["A"].thrown = 1
    /\ isSyncing["A"]
    /\ pc["A"] = "syncPages"

\* C6: every admitted run returns, and when it has returned isSyncing is false,
\* so that the next call is admitted: whether the run went through all stages,
\* failed in initialize, or threw in a stage.
C6_NeverStuck ==
    \A r \in Replicas : isSyncing[r] ~> (pc[r] = "idle" /\ Admitted(isSyncing[r]))

\* a run that failed in initialize has returned and the flag is down
C6_Witness ==
    /\ Len(log) >= 2
    /\ Last(0).k = "sync"
    /\ Last(0).res.errors = <<"Failed to search app folder">>
    /\ ~isSyncing[Last(0).r]
    /\ pc[Last(0).r] = "idle"

\* the run of r in progress is the first thing that happened after a crash
\* cut short the previous run of r
Resumed(r) == Last(0).k = "crash" /\ Last(0).r = r

\* the run that the crash cut short, had it not been cut short
Uninterrupted(r) == performSync(interrupted[r].local, interrupted[r].drive, now)

\* the folders, pages, tombstones and files of a store and of Drive, without
\* the createdAt and updatedAt that a run stamps on a page from its own clock
StateView(L, D) ==
    [folders |-> L.folders,
     pages |-> [p \in DOMAIN L.pages |->
                  <<L.pages[p].name, L.pages[p].folderId, L.pages[p].content>>],
     deletedFolders |-> L.deletedFolders,
     deletedPages |-> L.deletedPages,
     foldersJson |-> Rows(D.foldersJson),
     pagesJson |-> [p \in DOMAIN Rows(D.pagesJson) |->
                      <<D.pagesJson.rows[p].name, D.pagesJson.rows[p].folderId,
                        D.pagesJson.rows[p].contentHash>>],
     deletedFoldersJson |-> Rows(D.deletedFoldersJson),
     deletedPagesJson |-> Rows(D.deletedPagesJson),
     pageFiles |-> D.pageFiles]

\* C7: a run was cut short after some prefix of its writes and the next run of
\* that replica is not: it succeeds and ends in the local and remote folder,
\* page and tombstone state that the first run, uninterrupted, would have
\* ended in.
C7_CrashTolerance ==
    \A r \in Replicas :
        (RunEnded(r) /\ Resumed(r) /\ Uninterrupted(r).res.success)
            => /\ result[r].success
               /\ StateView(local[r], drive)
                    = StateView(Uninterrupted(r).local, Uninterrupted(r).drive)

\* page p was on both sides when r's run started, the local text hashing to
\* something else than pages.json records and the local row being newer
C8_Case(r, p) ==
    LET L == start[r].local.pages
        D == start[r].drive
    IN  /\ Has(L, p)
        /\ D.pagesJson.exists /\ Has(D.pagesJson.rows, p) /\ Has(D.pageFiles, p)
        /\ calculateContentHash(L[p].content) # D.pagesJson.rows[p].contentHash
        /\ L[p].updatedAt > D.pagesJson.rows[p].updatedAt

\* C8: a page on both sides whose local text differs from the recorded hash
\* and whose local updatedAt is the greater: after a successful run the remote
\* content file of the page holds the local text.
C8_LocalEditPropagation ==
    \A r \in Replicas : \A p \in DOMAIN start[r].local.pages :
        (RunEnded(r) /\ result[r].success /\ C8_Case(r, p))
            => /\ Has(drive.pageFiles, p)
               /\ drive.pageFiles[p] = start[r].local.pages[p].content

\* page p was remote only when r's run started: an entry of pages.json and a
\* content file, no local row and no tombstone on either side
C9_Case(r, p) ==
    LET L == start[r].local
        D == start[r].drive
    IN  /\ D.pagesJson.exists /\ Has(D.pagesJson.rows, p) /\ Has(D.pageFiles, p)
        /\ ~Has(L.pages, p)
        /\ ~Has(L.deletedPages, p)
        /\ ~Has(Rows(D.deletedPagesJson), p)

\* C9: a remote-only page without tombstone exists locally after a successful
\* run, with the name, folderId, createdAt and updatedAt of its pages.json entry
\* and the text of its content file.
C9_RemoteOnlyDownload ==
    \A r \in Replicas : \A p \in DOMAIN Rows(start[r].drive.pagesJson) :
        (RunEnded(r) /\ result[r].success /\ C9_Case(r, p))
            => LET e == start[r].drive.pagesJson.rows[p]
               IN  /\ Has(local[r].pages, p)
                   /\ local[r].pages[p] =
                        [name |-> e.name, folderId |-> e.folderId,
                         content |-> start[r].drive.pageFiles[p],
                         createdAt |-> e.createdAt, updatedAt |-> e.updatedAt]

\* C10: a run against an empty Drive namespace uploads the local state:
\* folders.json holds every local folder, pages.json every local page with the
\* hash of its text, there is one content file per local page holding its text,
\* the tombstone indexes hold the local tombstones; the local store is as it
\* was and foldersDownloaded = pagesDownloaded = 0.
C10_FirstSyncSeeding ==
    \A r \in Replicas :
        (RunEnded(r) /\ start[r].drive = EmptyDrive)
            => LET L == start[r].local
               IN  /\ result[r].success
                   /\ drive.foldersJson.exists
                   /\ drive.foldersJson.rows = serializeFolders(L.folders)
                   /\ DOMAIN drive.foldersJson.rows = DOMAIN L.folders
                   /\ drive.pagesJson.exists
                   /\ DOMAIN drive.pagesJson.rows = DOMAIN L.pages
                   /\ \A p \in DOMAIN L.pages :
                         /\ drive.pagesJson.rows[p].contentHash
                               = calculateContentHash(L.pages[p].content)
                         /\ drive.pagesJson.rows[p].name = L.pages[p].name
                   /\ DOMAIN drive.pageFiles = DOMAIN L.pages
                   /\ \A p \in DOMAIN L.pages : drive.pageFiles[p] = L.pages[p].content
                   /\ Rows(drive.deletedFoldersJson) = L.deletedFolders
                   /\ Rows(drive.deletedPagesJson) = L.deletedPages
                   /\ local[r] = L
                   /\ result[r].foldersDownloaded = 0
                   /\ result[r].pagesDownloaded = 0

\* a first run over a store with a folder and a page in it has ended
C10_Witness ==
    /\ RunEnded("A")
    /\ start["A"].drive = EmptyDrive
    /\ DOMAIN start["A"].local.folders # {}
    /\ DOMAIN start["A"].local.pages # {}
    /\ drive.pagesJson.exists

\* every edit of the behaviour was made on one replica
OneSided == \E r \in Replicas : \A i \in DOMAIN log : log[i].k = "edit" => log[i].r = r

\* C11: when the pages were changed on one replica only, the other one holding
\* what it last got from Drive, no run or bulk operation on either replica
\* makes a conflict copy: no store holds a page with a conflict id and every
\* result has conflicts = 0, whichever replica runs first.
C11_NoConflictFastPath ==
    OneSided =>
        /\ \A r \in Replicas :
              /\ \A p \in DOMAIN local[r].pages : ~IsConflictCopy(p)
              /\ result[r].conflicts = 0
        /\ \A i \in DOMAIN log : log[i].res.conflicts = 0

\* A edited the shared page, A ran and then B ran, both with success, and B
\* still holds the page
C11_Witness ==
    /\ Idle
    /\ OneSided
    /\ \E i \in DOMAIN log :
          log[i].k = "edit" /\ log[i].r = "A" /\ log[i].op = "updatePage"
              /\ log[i].id = <<2>>
    /\ LastRuns(<<"A", "B">>)
    /\ Last(0).res.success /\ Last(1).res.success
    /\ Has(local["B"].pages, <<2>>)
    /\ local["A"].pages[<<2>>].content # local["B"].pages[<<2>>].content

\* the page ids with a content file, no pages.json entry and no tombstone when
\* r's run started, and those with an entry and no content file
OrphanFiles(r) ==
    {p \in (DOMAIN start[r].drive.pageFiles) \ (DOMAIN Rows(start[r].drive.pagesJson)) :
        /\ ~Has(start[r].local.deletedPages, p)
        /\ ~Has(Rows(start[r].drive.deletedPagesJson), p)}

DanglingEntries(r) ==
    (DOMAIN Rows(start[r].drive.pagesJson)) \ (DOMAIN start[r].drive.pageFiles)

\* C12: a run that starts with content files and pages.json entries that do
\* not match and returns with success leaves every orphan content file that
\* is still on Drive with a pages.json entry, and creates no local page from an
\* entry without content file.
C12_ConsistencyRepair ==
    \A r \in Replicas :
        (RunEnded(r) /\ result[r].success /\ start[r].drive.pagesJson.exists
                     /\ OrphanFiles(r) \cup DanglingEntries(r) # {})
            => /\ \A p \in OrphanFiles(r) :
                     Has(drive.pageFiles, p) => Has(drive.pagesJson.rows, p)
               /\ \A p \in DanglingEntries(r) :
                     ~Has(start[r].local.pages, p) => ~Has(local[r].pages, p)

\* the seven counters are natural numbers, and errors is empty exactly when
\* success is true
WellFormed(res) ==
    /\ \A n \in {res.foldersUploaded, res.foldersDownloaded, res.foldersDeleted,
                 res.pagesUploaded, res.pagesDownloaded, res.pagesDeleted,
                 res.conflicts} : n \in Nat
    /\ (res.errors = <<>>) <=> res.success

\* C13: every result that performSync returns, whether the run went through
\* its five stages or threw in initialize or in a stage, has seven counters
\* that are non-negative integers and an errors list that is empty if and only
\* if success is true.
C13_ResultInvariant ==
    /\ \A i \in DOMAIN log : log[i].k = "sync" => WellFormed(log[i].res)
    /\ \A r \in Replicas : RunEnded(r) => WellFormed(result[r])

\* a run that uploaded a folder and then threw in a later stage has returned
C13_Witness ==
    /\ Last(0).k = "sync"
    /\ ~Last(0).res.success
    /\ Last(0).res.errors = <<"Failed to search file">>
    /\ Last(0).res.foldersUploaded > 0

\* the writes of the run of r that has just ended
WritesOfRun(r) == WritesFrom(start[r], NewResult, "syncFolders", now)

\* C14: a run that follows a successful run of the same replica, with no edit
\* and no run of the other replica in between, makes no write: no index or
\* content file is put or deleted on Drive and no local row is created,
\* updated or deleted, also when the tombstone index files exist on Drive.
C14_ZeroWrites ==
    \A r \in Replicas :
        (RunEnded(r) /\ Last(0).k = "sync" /\ Last(0).r = r /\ Last(0).res.success)
            => WritesOfRun(r) = <<>>

\* page p was on both sides when r's run started, the content file holding
\* another text than the local row, pages.json recording the hash of the file
\* and an updatedAt that is not older than the local one
C15_Case(r, p) ==
    LET L == start[r].local.pages
        D == start[r].drive
    IN  /\ Has(L, p)
        /\ D.pagesJson.exists /\ Has(D.pagesJson.rows, p) /\ Has(D.pageFiles, p)
        /\ D.pageFiles[p] # L[p].content
        /\ D.pagesJson.rows[p].contentHash = calculateContentHash(D.pageFiles[p])
        /\ D.pagesJson.rows[p].updatedAt >= L[p].updatedAt

\* C15: a run that starts in the state of the conflict simulation ends with one
\* new local page, a conflict copy holding the local text under a marked name;
\* the original page holds the remote text, name and updatedAt; the remote
\* content file is as it was; conflicts = 1.
C15_SingleRunConflict ==
    \A r \in Replicas : \A p \in DOMAIN start[r].local.pages :
        (RunEnded(r) /\ result[r].success /\ C15_Case(r, p))
            => LET before == start[r].local.pages
                   entry == start[r].drive.pagesJson.rows[p]
                   copies == (DOMAIN local[r].pages) \ (DOMAIN before)
               IN  /\ Cardinality(copies) = 1
                   /\ \A q \in copies :
                         /\ IsConflictCopy(q)
                         /\ local[r].pages[q].content = before[p].content
                         /\ local[r].pages[q].name = conflictName(before[p].name)
                   /\ local[r].pages[p].content = start[r].drive.pageFiles[p]
                   /\ local[r].pages[p].name = entry.name
                   /\ local[r].pages[p].updatedAt = entry.updatedAt
                   /\ drive.pageFiles[p] = start[r].drive.pageFiles[p]
                   /\ result[r].conflicts = 1

\* C16: the last call of the adapter, whichever operation it was: if one of
\* its requests failed, the caller got an error; a download gave null only when
\* no blob of that name existed; delete-page-content returned normally only
\* when no blob of that name is left.
C16_ErrorPropagation ==
    LET call == net.last
    IN  /\ call.failed => call.out.kind = "throws"
        /\ (call.op = "download" /\ call.out.kind = "null") => ~call.existed
        /\ (call.op = "delete" /\ call.out.kind = "void")
              => Named(net.blobs, call.name) = {}

\* C17: when no upload is in flight, every name that an upload was completed
\* for (and not deleted since) has exactly one blob, holding the content of the
\* last completed upload, so that a download of the name gives that content.
C17_PutIdempotent ==
    (\A r \in Replicas : net.put[r].at = "idle")
        => \A name \in FileNames :
              net.lastPut[name] # 0
                 => /\ Cardinality(Named(net.blobs, name)) = 1
                    /\ \A i \in Named(net.blobs, name) :
                          net.blobs[i].content = net.lastPut[name]

\* the event n places before the end of the log is a bulk operation `op` of
\* replica r that returned success = true
BulkDone(n, r, op) ==
    /\ Len(log) > n
    /\ Last(n).k = "force" /\ Last(n).r = r /\ Last(n).op = op
    /\ Last(n).res.success

\* C18: right after forceUploadAll returned success = true on r, the four
\* index files equal r's folders, page metadata and tombstones, and the content
\* files are exactly one per local page, holding its text; and the run of
\* performSync that r makes next reports pagesDownloaded = 0 and creates no
\* local page.
C18_ForceUploadOverwrites ==
    \A r \in Replicas :
        /\ (Idle /\ BulkDone(0, r, "forceUploadAll"))
              => /\ Rows(drive.foldersJson) = serializeFolders(local[r].folders)
                 /\ Rows(drive.pagesJson) = serializePages(local[r].pages)
                 /\ Rows(drive.deletedFoldersJson) = local[r].deletedFolders
                 /\ Rows(drive.deletedPagesJson) = local[r].deletedPages
                 /\ DOMAIN drive.pageFiles = DOMAIN local[r].pages
                 /\ \A p \in DOMAIN local[r].pages :
                       drive.pageFiles[p] = local[r].pages[p].content
        /\ (RunEnded(r) /\ BulkDone(0, r, "forceUploadAll"))
              => /\ result[r].pagesDownloaded = 0
                 /\ DOMAIN local[r].pages \subseteq DOMAIN start[r].local.pages

\* C19: right after forceDownloadAll returned success = true on r, r's folders
\* are those of folders.json, r has exactly one page per entry of pages.json,
\* with the entry's name, folderId and timestamps and the text of its content
\* file, and r's tombstones are those of the remote tombstone indexes.
C19_ForceDownloadOverwrites ==
    \A r \in Replicas :
        (Idle /\ BulkDone(0, r, "forceDownloadAll"))
            => /\ serializeFolders(local[r].folders) = Rows(drive.foldersJson)
               /\ DOMAIN local[r].pages = DOMAIN Rows(drive.pagesJson)
               /\ \A p \in DOMAIN local[r].pages :
                     LET e == drive.pagesJson.rows[p]
                     IN  /\ Has(drive.pageFiles, p)
                         /\ local[r].pages[p] =
                              [name |-> e.name, folderId |-> e.folderId,
                               content |-> drive.pageFiles[p],
                               createdAt |-> e.createdAt, updatedAt |-> e.updatedAt]
               /\ local[r].deletedFolders = Rows(drive.deletedFoldersJson)
               /\ local[r].deletedPages = Rows(drive.deletedPagesJson)

\* the content uploads and the page downloads of the run replica r is in, as
\* the run does them when no request is refused
ContentWork(r) ==
    LET ws == WritesFrom(start[r], NewResult, "syncFolders", now)
    IN  {ws[i] : i \in {j \in DOMAIN ws : ws[j].op \in {"uploadPageContent", "createPage"}}}

\* the part of that work the stores do not show
ContentWorkLeft(r) ==
    {w \in ContentWork(r) :
        \/ /\ w.op = "uploadPageContent"
           /\ ~(Has(drive.pageFiles, w.id) /\ drive.pageFiles[w.id] = w.v)
        \/ /\ w.op = "createPage"
           /\ ~Has(local[r].pages, w.id)}

UploadRefused(r) ==
    /\ RunEnded(r)
    /\ result[r].errors \in {<<"Failed to update file">>, <<"Failed to create file">>}

\* C20: when the upload of one page's content is refused in Stage E, the
\* failure is in the result's errors and the stage goes on: of the pages that
\* needed an upload or a download in that run, only the refused one is left
\* undone
C20_FailureIsolation ==
    \A r \in Replicas :
        UploadRefused(r) => Cardinality(ContentWorkLeft(r)) <= 1

\* the message of the deserializer of index file f
Unsupported(f) ==
    CASE f = "foldersJson" -> "Unsupported folders.json version"
      [] f = "deletedFoldersJson" -> "Unsupported deletedFolders.json version"
      [] f = "pagesJson" -> "Unsupported pages.json version"
      [] f = "deletedPagesJson" -> "Unsupported deletedPages.json version"

\* index file f had an unrecognized version tag when the run of r started
ForeignAtStart(r, f) == start[r].drive[f].exists /\ start[r].drive[f].version # Version

\* the local rows index file f speaks of are as they were before the stage
\* that reads f
RowsUntouched(r, f) ==
    CASE f = "foldersJson" -> local[r].folders = start[r].local.folders
      [] f = "deletedFoldersJson" ->
           \A id \in DOMAIN start[r].drive[f].rows :
               Has(start[r].local.folders, id) => Has(local[r].folders, id)
      [] f = "pagesJson" -> local[r].pages = start[r].local.pages
      [] f = "deletedPagesJson" ->
           \A id \in DOMAIN start[r].drive[f].rows :
               Has(start[r].local.pages, id) => Has(local[r].pages, id)

OnBothSides(r, f) ==
    /\ Has(start[r].local.folders, f)
    /\ start[r].drive.foldersJson.exists
    /\ Has(start[r].drive.foldersJson.rows, f)

RemoteRow(r, f) == start[r].drive.foldersJson.rows[f]

\* C22: Stage A, folder on both sides: when the remote row is strictly newer
\* the run replaces the local row by it and counts it in foldersDownloaded,
\* when the local row is strictly newer the uploaded snapshot carries the
\* local row, and in neither case does the run fail
C22_NewerSideWins ==
    \A r \in Replicas : \A f \in DOMAIN start[r].local.folders :
        (RunEnded(r) /\ OnBothSides(r, f)) =>
            /\ RemoteRow(r, f).updatedAt > start[r].local.folders[f].updatedAt =>
                  /\ result[r].errors = <<>>
                  /\ result[r].foldersDownloaded >= 1
                  /\ Has(local[r].folders, f) => local[r].folders[f] = RemoteRow(r, f)
            /\ start[r].local.folders[f].updatedAt > RemoteRow(r, f).updatedAt =>
                  /\ result[r].errors = <<>>
                  /\ drive.foldersJson.rows[f] = serializeFolders(start[r].local.folders)[f]

\* the step is a stage of r whose download of its index file is refused
RefusedStep(r) ==
    /\ pc[r] \in Stages
    /\ Len(log') = Len(log) + 1
    /\ log'[Len(log')].k = "refused"
    /\ log'[Len(log')].r = r

\* C23: the seed branches are taken only when the remote index file does not
\* exist: when the download of an existing index is refused, the run aborts
\* with success = false and the index is not replaced by the local snapshot
C23_SeedOnlyOnAbsence ==
    [][\A r \in Replicas :
          RefusedStep(r) =>
              /\ pc'[r] = "finally"
              /\ ~result'[r].success
              /\ result'[r].errors # <<>>
              /\ drive'[IndexOf(pc[r])] = drive[IndexOf(pc[r])]]_vars

\* page p was on both sides with one updatedAt and two contents when the run of
\* r started: the remote entry matched the remote file and not the local text
EqualTimestampDivergence(r, p) ==
    LET S == start[r]
    IN  /\ Has(S.local.pages, p)
        /\ S.drive.pagesJson.exists /\ Has(S.drive.pagesJson.rows, p)
        /\ Has(S.drive.pageFiles, p)
        /\ ~Has(Rows(S.drive.deletedPagesJson), p)
        /\ S.drive.pagesJson.rows[p].updatedAt = S.local.pages[p].updatedAt
        /\ S.drive.pagesJson.rows[p].contentHash
              = calculateContentHash(deserializePageContent(S.drive.pageFiles[p]))
        /\ S.drive.pagesJson.rows[p].contentHash
              # calculateContentHash(S.local.pages[p].content)

\* C24: an equal-timestamp divergence is caught by Stage E: a conflict copy of
\* the local version is created, the page adopts the remote content as it was
\* at the start of the stage, and conflicts is incremented
C24_EqualTimestampCaught ==
    \A r \in Replicas : \A p \in DOMAIN start[r].local.pages :
        (RunEnded(r) /\ result[r].errors = <<>> /\ EqualTimestampDivergence(r, p)) =>
            /\ result[r].conflicts >= 1
            /\ Has(local[r].pages, p)
            /\ local[r].pages[p].content = deserializePageContent(start[r].drive.pageFiles[p])
            /\ \E q \in (DOMAIN local[r].pages) \ (DOMAIN start[r].local.pages) :
                  local[r].pages[q].content = start[r].local.pages[p].content

\* C25: sync does not resurrect locally deleted entities: a folder or page that
\* has a local tombstone and is absent from the local store when performSync
\* starts is still absent from it when the run ends
C25_NoResurrection ==
    \A r \in Replicas :
        RunEnded(r) =>
            /\ \A f \in DOMAIN start[r].local.deletedFolders :
                  ~Has(start[r].local.folders, f) => ~Has(local[r].folders, f)
            /\ \A p \in DOMAIN start[r].local.deletedPages :
                  ~Has(start[r].local.pages, p) => ~Has(local[r].pages, p)

\* the run of r has ended without an error
Succeeded(r) == RunEnded(r) /\ result[r].success /\ result[r].errors = <<>>

\* every entry of pages.json has a content file with the entry's hash
EntriesHaveFiles ==
    \A p \in DOMAIN Rows(drive.pagesJson) :
        /\ Has(drive.pageFiles, p)
        /\ drive.pagesJson.rows[p].contentHash
              = calculateContentHash(deserializePageContent(drive.pageFiles[p]))

\* every content file has an entry in pages.json
FilesHaveEntries == \A p \in DOMAIN drive.pageFiles : Has(Rows(drive.pagesJson), p)

\* C26: after every successful, uninterrupted performSync every entry of the
\* remote pages.json has a remote content file whose content hashes to the
\* entry's contentHash, and every remote content file has an entry
C26_IndexContentConsistency ==
    \A r \in Replicas : Succeeded(r) => EntriesHaveFiles /\ FilesHaveEntries

\* every tombstone of index a is in index b with a deletedAt that is not less
KeptIn(a, b) == \A id \in DOMAIN a : Has(b, id) /\ b[id] >= a[id]

\* C27: across any sequence or interleaving of performSync runs of the two
\* replicas a tombstone once present in a remote tombstone index stays present
\* with a deletedAt that never decreases, and a tombstone of a replica's local
\* collection is never removed
C27_TombstonePersistence ==
    [][/\ KeptIn(Rows(drive.deletedFoldersJson), Rows(drive'.deletedFoldersJson))
       /\ KeptIn(Rows(drive.deletedPagesJson), Rows(drive'.deletedPagesJson))
       /\ \A r \in Replicas :
             /\ KeptIn(local[r].deletedFolders, local'[r].deletedFolders)
             /\ KeptIn(local[r].deletedPages, local'[r].deletedPages)]_vars

Max2(a, b) == IF a > b THEN a ELSE b

\* one record for each id of either collection, with the later deletedAt
LastWriterWins(a, b) ==
    [id \in (DOMAIN a) \cup (DOMAIN b) |->
        IF Has(a, id) /\ Has(b, id) THEN Max2(a[id], b[id])
        ELSE IF Has(a, id) THEN a[id] ELSE b[id]]

\* C28: the tombstone merge is last-writer-wins per id: the merge Stage B and
\* Stage D upload holds exactly one record for each id of the local or the
\* remote tombstones and no other, with the maximum deletedAt of the id over
\* both; the merge is commutative and idempotent
C28_TombstoneMerge ==
    \A r \in Replicas :
        LET lf == start[r].local.deletedFolders
            df == Rows(start[r].drive.deletedFoldersJson)
            lp == start[r].local.deletedPages
            dp == Rows(start[r].drive.deletedPagesJson)
        IN  /\ mergeDeletedRecords(lf, df) = LastWriterWins(lf, df)
            /\ mergeDeletedRecords(lf, df) = mergeDeletedRecords(df, lf)
            /\ mergeDeletedRecords(lf, lf) = lf
            /\ mergePageDeletedRecords(lp, dp) = LastWriterWins(lp, dp)
            /\ mergePageDeletedRecords(lp, dp) = mergePageDeletedRecords(dp, lp)
            /\ mergePageDeletedRecords(dp, dp) = dp
            /\ pc[r] = "syncPages" => Rows(drive.deletedFoldersJson) = LastWriterWins(lf, df)
            /\ pc[r] = "syncPageContents" => Rows(drive.deletedPagesJson) = LastWriterWins(lp, dp)

\* Stage B has uploaded a merge in which an id of both sides took the remote,
\* later, deletedAt and another id the local, later, one
C28_Witness ==
    \E r \in Replicas :
        /\ pc[r] = "syncPages"
        /\ \E i \in TombstoneIds, j \in TombstoneIds :
              /\ Has(start[r].local.deletedFolders, i) /\ Has(start[r].local.deletedFolders, j)
              /\ Has(Rows(start[r].drive.deletedFoldersJson), i)
              /\ Has(Rows(start[r].drive.deletedFoldersJson), j)
              /\ start[r].local.deletedFolders[i] < start[r].drive.deletedFoldersJson.rows[i]
              /\ start[r].local.deletedFolders[j] > start[r].drive.deletedFoldersJson.rows[j]
              /\ drive.deletedFoldersJson.rows[i] = start[r].drive.deletedFoldersJson.rows[i]
              /\ drive.deletedFoldersJson.rows[j] = start[r].local.deletedFolders[j]

\* the page tombstones Stage D of the run of r read from Drive
TombstonesRead(r) == DOMAIN Rows(start[r].drive.deletedPagesJson)

\* C29: after Stage D completes, for every page id of the remote page-tombstone
\* index the stage read there is no local page and no remote content file,
\* and pagesDeleted counts each such id that existed locally once
C29_StageD ==
    \A r \in Replicas :
        pc[r] = "syncPageContents" =>
            /\ \A p \in TombstonesRead(r) :
                  ~Has(local[r].pages, p) /\ ~Has(drive.pageFiles, p)
            /\ result[r].pagesDeleted
                  = Cardinality(TombstonesRead(r) \cap DOMAIN start[r].local.pages)

\* C30: performSync never adds, changes or removes a record of the local
\* DeletedFolders or DeletedPages collections: while a run is in flight the
\* replica's tombstones are those it started with, also after Stage B or D
\* has deleted a local entity for a remote tombstone
C30_SilentRemoval ==
    \A r \in Replicas :
        pc[r] # "idle" =>
            /\ local[r].deletedFolders = start[r].local.deletedFolders
            /\ local[r].deletedPages = start[r].local.deletedPages

\* Stage D has deleted a local page for a remote tombstone and the replica has
\* no tombstone of it
C30_Witness ==
    \E r \in Replicas :
        /\ RunEnded(r)
        /\ result[r].pagesDeleted >= 1
        /\ \E p \in DOMAIN start[r].local.pages :
              /\ Has(Rows(start[r].drive.deletedPagesJson), p)
              /\ ~Has(local[r].pages, p)
              /\ ~Has(local[r].deletedPages, p)

\* Stage A of the run of r found folders.json and has completed
StageADone(r) ==
    /\ pc[r] = "syncDeletedFolders"
    /\ start[r].drive.foldersJson.exists

\* no folder id on one side only and no folder row newer on either side
SameFolders(r) ==
    LET lf == start[r].local.folders
        df == start[r].drive.foldersJson.rows
    IN  /\ DOMAIN lf = DOMAIN df
        /\ \A f \in DOMAIN lf : lf[f].updatedAt = df[f].updatedAt

\* C31: whenever Stage A detects a change in either direction and completes,
\* the folder list written to folders.json is the complete local folder set as
\* it is after the downloads; when no id is on one side only and no row is
\* strictly newer on either side, Stage A writes nothing to either store
C31_WholeSnapshot ==
    \A r \in Replicas :
        StageADone(r) =>
            IF SameFolders(r)
            THEN /\ syncFolders(start[r].local, start[r].drive, NewResult).ws = <<>>
                 /\ local[r] = start[r].local
                 /\ drive = start[r].drive
            ELSE /\ drive.foldersJson.rows = serializeFolders(local[r].folders)
                 /\ DOMAIN local[r].folders
                       = (DOMAIN start[r].local.folders)
                           \cup (DOMAIN start[r].drive.foldersJson.rows)

\* Stage A downloaded a folder and uploaded the snapshot that holds it and a
\* local-only folder
C31_Witness ==
    \E r \in Replicas :
        /\ StageADone(r)
        /\ result[r].foldersDownloaded >= 1
        /\ result[r].foldersUploaded >= 1
        /\ drive.foldersJson.rows = serializeFolders(local[r].folders)

\* the page index is absent, or a page is on one side only or has two updatedAt
PagesDiffer(r) ==
    LET lp == start[r].local.pages
        file == start[r].drive.pagesJson
    IN  \/ ~file.exists
        \/ DOMAIN lp # DOMAIN file.rows
        \/ \E p \in DOMAIN lp : lp[p].updatedAt # file.rows[p].updatedAt

\* C32: Stage C never creates, updates or deletes a local page; it writes
\* pages.json if and only if the index is absent or some page is local-only,
\* remote-only or has a different updatedAt on the two sides, and what it
\* writes is the metadata of the local pages with the hash of the local content
C32_StageC ==
    \A r \in Replicas :
        pc[r] = "syncDeletedPages" =>
            /\ local[r].pages = start[r].local.pages
            /\ syncPages(start[r].local, start[r].drive, NewResult).ws # <<>>
                  <=> PagesDiffer(r)
            /\ IF PagesDiffer(r)
               THEN /\ drive.pagesJson.exists
                    /\ DOMAIN drive.pagesJson.rows = DOMAIN local[r].pages
                    /\ \A p \in DOMAIN local[r].pages :
                          LET row == drive.pagesJson.rows[p]
                              page == local[r].pages[p]
                          IN  /\ row.name = page.name
                              /\ row.folderId = page.folderId
                              /\ row.updatedAt = page.updatedAt
                              /\ row.contentHash = calculateContentHash(page.content)
               ELSE drive.pagesJson = start[r].drive.pagesJson

\* Stage C has rewritten pages.json because of a page that is on Drive only
C32_Witness ==
    \E r \in Replicas :
        /\ pc[r] = "syncDeletedPages"
        /\ start[r].drive.pagesJson.exists
        /\ \E p \in DOMAIN start[r].drive.pagesJson.rows : ~Has(start[r].local.pages, p)
        /\ drive.pagesJson # start[r].drive.pagesJson

\* the step is a stage of r, not the last one, that throws for a reason of the
\* Local Store
StageThrewLocally(r) ==
    /\ pc[r] \in Stages \ {"syncPageContents"}
    /\ result'[r].errors = Append(result[r].errors, "ConstraintError")

\* C33: an exception raised inside one stage for a reason other than the
\* remote store being unreachable is recorded in errors and the later stages
\* of the same run are still executed: the run goes on with the next stage
C33_StageIndependence ==
    [][\A r \in Replicas : StageThrewLocally(r) => pc'[r] = StageAfter(pc[r])]_vars

\* the step is a Stage B or D of r that fails to read the local tombstones
UnreadyStep(r) ==
    /\ pc[r] \in TombstoneStages
    /\ Len(log') = Len(log) + 1
    /\ log'[Len(log')].k = "unready"
    /\ log'[Len(log')].r = r

ForceStep(r) ==
    /\ Len(log') = Len(log) + 1
    /\ log'[Len(log')].k = "force"
    /\ log'[Len(log')].r = r

\* C35: while a performSync run is in progress on an orchestrator instance,
\* forceUploadAll and forceDownloadAll of the same instance do not interleave
\* with it: a force operation writes the stores only when no run of the
\* instance is in flight
C35_MutualExclusion ==
    [][\A r \in Replicas : ForceStep(r) => ~isSyncing[r] /\ pc[r] = "idle"]_vars

\* the step is a forceDownloadAll of r that returns success = false
ForceDownloadFailed(r) ==
    /\ Len(log') = Len(log) + 1
    /\ log'[Len(log')].k = "force"
    /\ log'[Len(log')].op = "forceDownloadAll"
    /\ log'[Len(log')].r = r
    /\ ~log'[Len(log')].res.success

\* C36: whenever forceDownloadAll returns success = false, the local folders,
\* pages and tombstone collections are the same as before the call
C36_FailedDownloadKeepsLocal ==
    [][\A r \in Replicas : ForceDownloadFailed(r) => local'[r] = local[r]]_vars

\* the ids a user delete of replica r was called for
UserDeleted(r, op) ==
    {log[i].id : i \in {j \in DOMAIN log :
                            log[j].k = "edit" /\ log[j].r = r /\ log[j].op = op}}

\* the step is a user delete of r, whole or interrupted
UserDeleteStep(r, op, id) ==
    /\ Len(log') = Len(log) + 1
    /\ log'[Len(log')] \in {Event("edit", r, op, id, c, NewResult) : c \in {0, 1}}

\* C37: the tombstone is written before the row is removed: in every reachable
\* state, also after a crash between the two writes, a folder or page that a
\* user delete removed has a local tombstone; and a delete of an id (again or
\* for the first time) leaves its one tombstone with the time of that delete,
\* never an earlier one than it had
C37_TombstoneFirst ==
    /\ [](\A r \in Replicas :
            /\ \A p \in UserDeleted(r, "deletePage") :
                   ~Has(local[r].pages, p) => Has(local[r].deletedPages, p)
            /\ \A f \in UserDeleted(r, "deleteFolder") :
                   ~Has(local[r].folders, f) => Has(local[r].deletedFolders, f))
    /\ [][\A r \in Replicas :
            /\ \A p \in DOMAIN local[r].pages :
                   UserDeleteStep(r, "deletePage", p) =>
                      /\ Has(local'[r].deletedPages, p)
                      /\ local'[r].deletedPages[p] = now'
                      /\ Has(local[r].deletedPages, p) =>
                            local'[r].deletedPages[p] > local[r].deletedPages[p]
            /\ \A f \in DOMAIN local[r].folders :
                   UserDeleteStep(r, "deleteFolder", f) =>
                      /\ Has(local'[r].deletedFolders, f)
                      /\ local'[r].deletedFolders[f] = now'
                      /\ Has(local[r].deletedFolders, f) =>
                            local'[r].deletedFolders[f] > local[r].deletedFolders[f]]_vars

\* a delete of page p was interrupted after its tombstone, the page was
\* deleted again, and the row is gone with the tombstone of the second delete
C37_Witness ==
    \E r \in Replicas : \E i \in DOMAIN log : \E j \in DOMAIN log :
        /\ i < j
        /\ log[i] = Event("edit", r, "deletePage", log[j].id, 1, NewResult)
        /\ log[j] = Event("edit", r, "deletePage", log[i].id, 0, NewResult)
        /\ ~Has(local[r].pages, log[i].id)
        /\ Has(local[r].deletedPages, log[i].id)
        /\ local[r].deletedPages[log[i].id] = now

\* some folders are each other's ancestors: a set of folders in which every
\* folder has its parent
HasCycle(folders) ==
    \E S \in (SUBSET DOMAIN folders) \ {{}} : \A f \in S : folders[f].parentId \in S

\* C38: the local folder set of every replica stays cycle-free in the parentId
\* relation through every performSync, also when two replicas moved folders
\* in conflicting ways before syncing; folders.json stays cycle-free too
C38_FolderForest ==
    /\ \A r \in Replicas : ~HasCycle(local[r].folders)
    /\ ~HasCycle(Rows(drive.foldersJson))

\* the page content files the run of r put to Drive
ContentUploads(r) ==
    {i \in DOMAIN WritesOfRun(r) : WritesOfRun(r)[i].op = "uploadPageContent"}

\* C39: in every performSync result pagesUploaded equals the number of page
\* content files put to Drive during the run; uploads of pages.json are not
\* counted
C39_PagesUploaded ==
    \A r \in Replicas :
        pc[r] = "finally" => result[r].pagesUploaded = Cardinality(ContentUploads(r))

\* the step is a Stage E of r that completes
StageECompletes(r) ==
    /\ pc[r] = "syncPageContents"
    /\ pc'[r] = "finally"
    /\ result'[r].success

\* C40: when calculateContentHash returns fallback identifiers, no comparison
\* of Stage E takes two page contents for equal: a page whose local content
\* differs from the remote content file is not skipped as unchanged, the
\* stage uploads the local content or takes over the remote one
C40_FallbackAssumesChanged ==
    [][\A r \in Replicas : StageECompletes(r) =>
          \A p \in DOMAIN local[r].pages :
             (/\ Has(drive.pagesJson.rows, p)
              /\ Has(drive.pageFiles, p)
              /\ deserializePageContent(drive.pageFiles[p]) # local[r].pages[p].content)
             => \/ drive'.pageFiles[p] = serializePageContent(local[r].pages[p])
                \/ local'[r].pages[p].content = deserializePageContent(drive.pageFiles[p])]_vars

====
